---- MODULE Spec2Model ----
(***************************************************************************)
(* Nine men's morris: the rules engine MillGame (src/game.py) on top of    *)
(* Board (src/board.py).  Every method of MillGame is an operator from a   *)
(* game record and the call's arguments to the game the call leaves behind *)
(* and the exception it raised ("none" when it returned).  The actions     *)
(* apply these operators to the one authoritative game.  The search        *)
(* wrapper State (src/state.py) and the agents (src/agents.py) work on     *)
(* game objects of a heap; agent is the MCTSAgent in the middle of its     *)
(* search, one run_iteration a step.                                       *)
(***************************************************************************)
EXTENDS Integers, Sequences, FiniteSets, TLC

VARIABLES game, lastOp, agent

vars == <<game, lastOp, agent>>

(***************************************************************************)
(* Program constants.                                                      *)
(***************************************************************************)
CELLS_PER_RING == 8
RINGS == 3
BOARD_SIZE == CELLS_PER_RING * RINGS

\* Optional[...] = None, for max_movements and for a tied game's winner.
None == -1

\* Turn enum values; they index MillGame.players.
WHITE == 0
BLACK == 1

(***************************************************************************)
(* Bounds of the model.                                                    *)
(***************************************************************************)
\* Pieces each player starts with.  The program uses 9; the model plays the
\* same rules with 3..NUM_PIECES_PER_PLAYER pieces a side, so that placing,
\* moving, removals and eliminations are all explored.
NUM_PIECES_PER_PLAYER == 4

\* Callers pass the first NumCells positions of CellOrder as arguments.
NumCells == 7

\* A game is constructed without a move cap, with a cap in 1..MaxCap (reached
\* while placing) or with the cap MaxMoves (reached while moving); a game
\* without a cap is followed for MaxMoves movements.
MaxCap == 2

MaxMoves == 8

CellOrder ==
    << <<0, 0>>, <<0, 1>>, <<0, 2>>, <<0, 3>>,
       <<1, 0>>, <<1, 1>>, <<1, 2>>, <<2, 1>>,
       <<0, 7>>, <<1, 3>>, <<1, 7>>, <<2, 0>> >>

InputCells == {CellOrder[i] : i \in 1..NumCells}

ALL_BOARD_POSITIONS == (0..(RINGS - 1)) \X (0..(CELLS_PER_RING - 1))

Abs(x) == IF x < 0 THEN -x ELSE x

\* The element of a one-element set: {e : x \in {v}} computes v once for
\* every place where e reads x.
Only(S) == CHOOSE e \in S : TRUE

(***************************************************************************)
(* Board                                                                   *)
(***************************************************************************)
get_cell_idx(ring, cell) == ring * CELLS_PER_RING + cell

EmptyBoard == [i \in 0..(BOARD_SIZE - 1) |-> "EMPTY"]

get_cell(buff, ring, cell) == buff[get_cell_idx(ring, cell)]

put_cell(buff, ring, cell, state) ==
    [buff EXCEPT ![get_cell_idx(ring, cell)] = state]

board_remove(buff, ring, cell) == put_cell(buff, ring, cell, "EMPTY")

is_intersection(ring, cell) == cell % 2 = 1

\* Variant: the cells 7 and 0 of a ring do not count as neighbours.
are_adjacent_no_wrap(ring1, cell1, ring2, cell2) ==
    LET cell_adjacent == Abs(cell1 - cell2) = 1
        ring_adjacent == is_intersection(ring1, cell1) /\ Abs(ring1 - ring2) = 1
    IN  \/ (ring1 = ring2 /\ cell_adjacent)
        \/ (cell1 = cell2 /\ ring_adjacent)

are_adjacent(ring1, cell1, ring2, cell2) ==
    LET cell_adjacent == Abs(cell1 - cell2) \in {1, 7}
        ring_adjacent == is_intersection(ring1, cell1) /\ Abs(ring1 - ring2) = 1
    IN  \/ (ring1 = ring2 /\ cell_adjacent)
        \/ (cell1 = cell2 /\ ring_adjacent)

is_any_adjacent_cell_empty(buff, ring, cell) ==
    \E d \in {<<1, 0>>, <<-1, 0>>, <<0, 1>>, <<0, -1>>} :
        LET adj_ring == ring + d[1]
            adj_cell == cell + d[2]
        IN  /\ ~(adj_ring < 0 \/ adj_ring >= RINGS
                 \/ adj_cell < 0 \/ adj_cell >= CELLS_PER_RING)
            /\ are_adjacent(ring, cell, adj_ring, adj_cell)
            /\ get_cell(buff, adj_ring, adj_cell) = "EMPTY"

check_same_in_ring(buff, check_state, ring, cell) ==
    \A i \in 0..2 : check_state = get_cell(buff, ring, (cell + i) % CELLS_PER_RING)

check_across_rings(buff, check_state, cell) ==
    \A ring \in 0..(RINGS - 1) : check_state = get_cell(buff, ring, cell)

\* Variant: a corner closes a line with the two cells on either side of it.
is_mill_around_corner(buff, ring, cell) ==
    LET current_state == get_cell(buff, ring, cell)
    IN  IF current_state = "EMPTY" THEN FALSE
        ELSE IF is_intersection(ring, cell)
             THEN \/ check_same_in_ring(buff, current_state, ring, cell - 1)
                  \/ check_across_rings(buff, current_state, cell)
             ELSE \/ check_same_in_ring(buff, current_state, ring, cell)
                  \/ check_same_in_ring(buff, current_state, ring, cell + 6)
                  \/ check_same_in_ring(buff, current_state, ring, cell + 7)

is_mill(buff, ring, cell) ==
    LET current_state == get_cell(buff, ring, cell)
    IN  IF current_state = "EMPTY" THEN FALSE
        ELSE IF is_intersection(ring, cell)
             THEN \/ check_same_in_ring(buff, current_state, ring, cell - 1)
                  \/ check_across_rings(buff, current_state, cell)
             ELSE \/ check_same_in_ring(buff, current_state, ring, cell)
                  \/ check_same_in_ring(buff, current_state, ring, cell + 6)

(***************************************************************************)
(* MillGame                                                                *)
(***************************************************************************)
Player(cell_state, pieces) ==
    [associated_cell_state |-> cell_state,
     remaining_pieces |-> pieces,
     alive_pieces |-> pieces]

MillGame(turn, max_movements, pieces) ==
    [turn |-> turn,
     mode |-> "PLACE",
     has_to_delete |-> FALSE,
     max_movements |-> max_movements,
     board |-> EmptyBoard,
     players |-> [i \in {WHITE, BLACK} |->
                     IF i = WHITE THEN Player("WHITE", pieces)
                                  ELSE Player("BLACK", pieces)],
     movements_made |-> 0]

\* other_player and current_player, as indices into players.
other_player(g) == 1 - g.turn

current_player(g) == g.turn

\* Variant: the cap counts as reached only once it is exceeded.
is_tie_after_cap(g) == g.max_movements # None /\ g.movements_made > g.max_movements

is_tie(g) == g.max_movements # None /\ g.movements_made = g.max_movements

winner(g) ==
    IF g.mode # "FINISHED"
    THEN [raised |-> "MillGameException", value |-> None]
    ELSE IF is_tie(g) THEN [raised |-> "none", value |-> None]
         ELSE [raised |-> "none", value |-> g.turn]

\* Variant: the pending removal is not looked at.
check_mode_ignoring_pending(g, mode) == g.mode = mode

check_mode(g, mode) == g.mode = mode /\ ~g.has_to_delete

\* Variant: only the corner cells are looked at.
all_pieces_form_mill_corners(g, player) ==
    \A pos \in ALL_BOARD_POSITIONS :
        ~(/\ ~is_intersection(pos[1], pos[2])
          /\ get_cell(g.board, pos[1], pos[2]) = g.players[player].associated_cell_state
          /\ ~is_mill(g.board, pos[1], pos[2]))

all_pieces_form_mill(g, player) ==
    \A pos \in ALL_BOARD_POSITIONS :
        ~(/\ get_cell(g.board, pos[1], pos[2]) = g.players[player].associated_cell_state
          /\ ~is_mill(g.board, pos[1], pos[2]))

can_move_to_an_adjacent_cell(g, player) ==
    \E ring \in 0..(RINGS - 1) : \E cell \in 0..(CELLS_PER_RING - 1) :
        /\ get_cell(g.board, ring, cell) = g.players[player].associated_cell_state
        /\ is_any_adjacent_cell_empty(g.board, ring, cell)

change_turn(g) ==
    IF is_tie(g) \/ (g.mode = "MOVE" /\ ~can_move_to_an_adjacent_cell(g, other_player(g)))
    THEN [g EXCEPT !.mode = "FINISHED"]
    ELSE [g EXCEPT !.turn = 1 - g.turn]

\* Variant: the cell is looked at before the phase.
check_place_cells_first(g, ring, cell) ==
    IF get_cell(g.board, ring, cell) # "EMPTY" THEN "InvalidMoveException"
    ELSE IF ~check_mode(g, "PLACE") THEN "InvalidStateException"
    ELSE "none"

check_place(g, ring, cell) ==
    IF ~check_mode(g, "PLACE") THEN "InvalidStateException"
    ELSE IF get_cell(g.board, ring, cell) # "EMPTY" THEN "InvalidMoveException"
    ELSE "none"

\* Variant: adjacency is not checked.
check_move_anywhere(g, ring1, cell1, ring2, cell2) ==
    IF ~check_mode(g, "MOVE") THEN "InvalidStateException"
    ELSE IF g.players[current_player(g)].associated_cell_state
                # get_cell(g.board, ring1, cell1) THEN "InvalidMoveException"
    ELSE IF get_cell(g.board, ring2, cell2) # "EMPTY" THEN "InvalidMoveException"
    ELSE "none"

check_move(g, ring1, cell1, ring2, cell2) ==
    IF ~check_mode(g, "MOVE") THEN "InvalidStateException"
    ELSE IF ~are_adjacent(ring1, cell1, ring2, cell2) THEN "InvalidMoveException"
    ELSE IF g.players[current_player(g)].associated_cell_state
                # get_cell(g.board, ring1, cell1) THEN "InvalidMoveException"
    ELSE IF get_cell(g.board, ring2, cell2) # "EMPTY" THEN "InvalidMoveException"
    ELSE "none"

\* Variant: a removal is accepted without one being pending.
check_remove_unasked(g, ring, cell) ==
    IF get_cell(g.board, ring, cell) = "EMPTY" THEN "InvalidMoveException"
    ELSE IF get_cell(g.board, ring, cell)
                # g.players[other_player(g)].associated_cell_state
         THEN "InvalidMoveException"
    ELSE IF is_mill(g.board, ring, cell) /\ ~all_pieces_form_mill(g, other_player(g))
         THEN "InvalidMoveException"
    ELSE "none"

\* Variant: a piece in a mill is never removable.
check_remove_no_exemption(g, ring, cell) ==
    IF ~g.has_to_delete THEN "InvalidStateException"
    ELSE IF get_cell(g.board, ring, cell) = "EMPTY" THEN "InvalidMoveException"
    ELSE IF get_cell(g.board, ring, cell)
                # g.players[other_player(g)].associated_cell_state
         THEN "InvalidMoveException"
    ELSE IF is_mill(g.board, ring, cell) THEN "InvalidMoveException"
    ELSE "none"

check_remove(g, ring, cell) ==
    IF ~g.has_to_delete THEN "InvalidStateException"
    ELSE IF get_cell(g.board, ring, cell) = "EMPTY" THEN "InvalidMoveException"
    ELSE IF get_cell(g.board, ring, cell)
                # g.players[other_player(g)].associated_cell_state
         THEN "InvalidMoveException"
    ELSE IF is_mill(g.board, ring, cell) /\ ~all_pieces_form_mill(g, other_player(g))
         THEN "InvalidMoveException"
    ELSE "none"

\* What a call leaves behind: the game and the exception ("none": returned).
Outcome(g, err) == [g |-> g, err |-> err]

\* Variant: the piece is taken from the other player's count.
take_piece_other(g) ==
    LET g1 == [g EXCEPT !.players[other_player(g)].remaining_pieces = @ - 1]
    IN  IF /\ g1.players[current_player(g1)].remaining_pieces = 0
           /\ g1.players[other_player(g1)].remaining_pieces = 0
        THEN [g1 EXCEPT !.mode = "MOVE"]
        ELSE g1

\* The two statements shared by place and place_and_remove: decrement the
\* current player's remaining_pieces, then enter MOVE when both are at 0.
take_piece(g) ==
    LET g1 == [g EXCEPT !.players[current_player(g)].remaining_pieces = @ - 1]
    IN  IF /\ g1.players[current_player(g1)].remaining_pieces = 0
           /\ g1.players[other_player(g1)].remaining_pieces = 0
        THEN [g1 EXCEPT !.mode = "MOVE"]
        ELSE g1

remove(g, ring, cell) ==
    LET e == check_remove(g, ring, cell)
    IN  IF e # "none" THEN Outcome(g, e)
        ELSE LET g1 == [g EXCEPT !.board = board_remove(g.board, ring, cell)]
                 g2 == [g1 EXCEPT !.players[other_player(g1)].alive_pieces = @ - 1]
                 g3 == IF g2.players[other_player(g2)].alive_pieces <= 2
                       THEN [g2 EXCEPT !.mode = "FINISHED"]
                       ELSE change_turn(g2)
             IN  Outcome([g3 EXCEPT !.has_to_delete = FALSE], "none")

place(g, ring, cell) ==
    LET e == check_place(g, ring, cell)
    IN  IF e # "none" THEN Outcome(g, e)
        ELSE LET g1 == [g EXCEPT !.board = put_cell(g.board, ring, cell,
                            g.players[current_player(g)].associated_cell_state)]
                 g2 == take_piece(g1)
                 g3 == [g2 EXCEPT !.movements_made = @ + 1]
             IN  IF is_mill(g3.board, ring, cell)
                 THEN Outcome([g3 EXCEPT !.has_to_delete = TRUE], "none")
                 ELSE Outcome(change_turn(g3), "none")

move(g, ring1, cell1, ring2, cell2) ==
    LET e == check_move(g, ring1, cell1, ring2, cell2)
    IN  IF e # "none" THEN Outcome(g, e)
        ELSE LET b1 == board_remove(g.board, ring1, cell1)
                 g1 == [g EXCEPT !.board = put_cell(b1, ring2, cell2,
                            g.players[current_player(g)].associated_cell_state)]
                 g2 == [g1 EXCEPT !.movements_made = @ + 1]
             IN  IF is_mill(g2.board, ring2, cell2)
                 THEN Outcome([g2 EXCEPT !.has_to_delete = TRUE], "none")
                 ELSE Outcome(change_turn(g2), "none")

place_and_remove(g, ring, cell, rem_ring, rem_cell) ==
    LET e == check_place(g, ring, cell)
    IN  IF e # "none" THEN Outcome(g, e)
        ELSE
        LET g1 == [g EXCEPT !.board = put_cell(g.board, ring, cell,
                       g.players[current_player(g)].associated_cell_state)]
        IN  IF is_mill(g1.board, ring, cell)
            THEN LET r == remove([g1 EXCEPT !.has_to_delete = TRUE], rem_ring, rem_cell)
                 IN  IF r.err # "none"
                     THEN Outcome([r.g EXCEPT
                                       !.board = board_remove(r.g.board, ring, cell),
                                       !.has_to_delete = FALSE], r.err)
                     ELSE LET g2 == take_piece(r.g)
                              g3 == [g2 EXCEPT !.movements_made = @ + 1]
                          IN  Outcome(change_turn(g3), "none")
            ELSE Outcome([g1 EXCEPT !.board = board_remove(g1.board, ring, cell)],
                         "InvalidMoveException")

\* Variant: the piece is taken off its new cell but not put back.
undo_move_half(g, ring1, cell1, ring2, cell2) ==
    [g EXCEPT !.board = board_remove(g.board, ring2, cell2)]

undo_move(g, ring1, cell1, ring2, cell2) ==
    LET b1 == board_remove(g.board, ring2, cell2)
    IN  [g EXCEPT !.board = put_cell(b1, ring1, cell1,
                      g.players[current_player(g)].associated_cell_state)]

move_and_remove(g, ring1, cell1, ring2, cell2, rem_ring, rem_cell) ==
    LET e == check_move(g, ring1, cell1, ring2, cell2)
    IN  IF e # "none" THEN Outcome(g, e)
        ELSE
        LET b1 == board_remove(g.board, ring1, cell1)
            g1 == [g EXCEPT !.board = put_cell(b1, ring2, cell2,
                       g.players[current_player(g)].associated_cell_state)]
        IN  IF is_mill(g1.board, ring2, cell2)
            THEN LET r == remove([g1 EXCEPT !.has_to_delete = TRUE], rem_ring, rem_cell)
                 IN  IF r.err # "none"
                     THEN Outcome([undo_move(r.g, ring1, cell1, ring2, cell2)
                                       EXCEPT !.has_to_delete = FALSE], r.err)
                     ELSE LET g2 == [r.g EXCEPT !.movements_made = @ + 1]
                          IN  Outcome(change_turn(g2), "none")
            ELSE Outcome(undo_move(g1, ring1, cell1, ring2, cell2),
                         "InvalidMoveException")

(***************************************************************************)
(* The caller: one authoritative game, any call with any arguments.        *)
(***************************************************************************)
\* A game without a move cap is followed for MaxMoves movements.
Followed == game.max_movements # None \/ game.movements_made < MaxMoves

Caps == {None} \cup (1..MaxCap) \cup {MaxMoves}

\* No agent is in the middle of a search.
NoSearch == [searching |-> FALSE]

Init ==
    /\ \E turn \in {WHITE, BLACK} : \E max_movements \in Caps :
       \E pieces \in 3..NUM_PIECES_PER_PLAYER :
           game = MillGame(turn, max_movements, pieces)
    /\ lastOp = "new"
    /\ agent = NoSearch

\* The game is what the call leaves behind, whether it returned or raised;
\* lastOp is the last call that returned.
Call(op, outcome) ==
    /\ game' = outcome.g
    /\ lastOp' = IF outcome.err = "none" THEN op ELSE lastOp
    /\ UNCHANGED agent

\* The outcomes a call can have over all the arguments a caller may pass.
PlaceOutcomes(g) == {place(g, p[1], p[2]) : p \in InputCells}

MoveOutcomes(g) ==
    {move(g, sd[1][1], sd[1][2], sd[2][1], sd[2][2]) : sd \in InputCells \X InputCells}

RemoveOutcomes(g) == {remove(g, p[1], p[2]) : p \in InputCells}

PlaceAndRemoveOutcomes(g) ==
    {place_and_remove(g, pr[1][1], pr[1][2], pr[2][1], pr[2][2]) :
         pr \in InputCells \X InputCells}

MoveAndRemoveOutcomes(g) ==
    {move_and_remove(g, a[1][1], a[1][2], a[2][1], a[2][2], a[3][1], a[3][2]) :
         a \in InputCells \X InputCells \X InputCells}

Place ==
    /\ Followed
    /\ \E o \in PlaceOutcomes(game) : Call("place", o)

Move ==
    /\ Followed
    /\ \E o \in MoveOutcomes(game) : Call("move", o)

Remove ==
    \E o \in RemoveOutcomes(game) : Call("remove", o)

PlaceAndRemove ==
    /\ Followed
    /\ \E o \in PlaceAndRemoveOutcomes(game) : Call("place_and_remove", o)

MoveAndRemove ==
    /\ Followed
    /\ \E o \in MoveAndRemoveOutcomes(game) : Call("move_and_remove", o)

Next == Place \/ Move \/ Remove \/ PlaceAndRemove \/ MoveAndRemove

Spec == Init /\ [][Next]_vars

TypeOK ==
    /\ game.turn \in {WHITE, BLACK}
    /\ game.mode \in {"PLACE", "MOVE", "FINISHED"}
    /\ game.has_to_delete \in BOOLEAN
    /\ game.movements_made \in Nat
    /\ lastOp \in {"new", "place", "move", "remove", "place_and_remove", "move_and_remove"}
    /\ agent = NoSearch

(***************************************************************************)
(* State: the search wrapper (src/state.py).  Games are objects: a heap is *)
(* a sequence of games and a game object is its index in the heap, so that *)
(* a copy and its original are told apart.  deepcopy allocates, a rules    *)
(* call on an object rewrites that object in place.                        *)
(***************************************************************************)
\* ALL_BOARD_POSITIONS as the list the program iterates: ring by ring.
BoardPositions ==
    [i \in 1..BOARD_SIZE |->
        <<(i - 1) \div CELLS_PER_RING, (i - 1) % CELLS_PER_RING>>]

\* An absent position of a Move (pos_init or kill is None).
NoPos == <<None, None>>

\* The dataclass Move (the name Move is the caller's action above).
MoveTag(next_pos, pos_init, kill) ==
    [next_pos |-> next_pos, pos_init |-> pos_init, kill |-> kill]

\* The State built for the origin of a search carries no move.
NoMove == MoveTag(NoPos, NoPos, NoPos)

\* The index in the board's buffer of each entry of BoardPositions:
\* get_cell of the i-th position reads buff[i - 1].
BoardIndices == [i \in 1..BOARD_SIZE |-> i - 1]

\* GameInfo.from_game: the empty, white and black cells in board order.
GameInfo(g) ==
    LET cells(mark) ==
            LET idx == SelectSeq(BoardIndices, LAMBDA i : g.board[i] = mark)
            IN  [k \in 1..Len(idx) |-> BoardPositions[idx[k] + 1]]
    IN  [free_pieces |-> cells("EMPTY"),
         white_player_pieces |-> cells("WHITE"),
         black_player_pieces |-> cells("BLACK")]

\* State.__init__: the State keeps the game object it is given, not a copy,
\* and the GameInfo computed from it then; free_pieces and players are
\* copies of the GameInfo's lists.
State(heap, game_id, move_tag) ==
    LET info == GameInfo(heap[game_id])
    IN  [game |-> game_id,
         move |-> move_tag,
         game_info |-> info,
         free_pieces |-> info.free_pieces,
         players |-> <<info.white_player_pieces, info.black_player_pieces>>]

\* Variant: no copy is made, the same object is handed back.
deepcopy_alias(heap, game_id) == [heap |-> heap, id |-> game_id]

\* copy.deepcopy(game): a new object with the same contents.
deepcopy(heap, game_id) ==
    [heap |-> Append(heap, heap[game_id]), id |-> Len(heap) + 1]

\* random.shuffle is followed through the rotations of a list.
Rotate(seq, k) ==
    [i \in 1..Len(seq) |-> seq[((i - 1 + k) % Len(seq)) + 1]]

\* _shuffle_indices: each of the State's three lists is permuted in place;
\* ks are the three rotations chosen.
shuffle_indices(st, ks) ==
    [st EXCEPT !.free_pieces = Rotate(@, ks[1]),
               !.players = <<Rotate(@[1], ks[2]), Rotate(@[2], ks[3])>>]

\* State.__str__: the text lists the indices of free_pieces and of both
\* players' lists in the lists' order, the turn's name in lower case and
\* both remaining_pieces; the text is given by its fields.
State_str(heap, st) ==
    LET index(cells) == [i \in 1..Len(cells) |-> cells[i][1] * 8 + cells[i][2]]
    IN  [FREE |-> index(st.free_pieces),
         GAMER |-> <<index(st.players[1]), index(st.players[2])>>,
         TURN |-> IF heap[st.game].turn = WHITE THEN "white" ELSE "black",
         CHIPS |-> <<heap[st.game].players[WHITE].remaining_pieces,
                     heap[st.game].players[BLACK].remaining_pieces>>]

\* What next() gives on an exhausted generator.
NoState ==
    [game |-> 0, move |-> NoMove,
     game_info |-> [free_pieces |-> <<>>, white_player_pieces |-> <<>>,
                    black_player_pieces |-> <<>>],
     free_pieces |-> <<>>, players |-> <<<<>>, <<>>>>]

\* Variant: the generator shuffles whatever it is asked.
successors_shuffled(st, shuffle) ==
    [st |-> st, shuffle |-> TRUE, started |-> FALSE,
     firsts |-> <<>>, ops |-> <<>>, i |-> 1, j |-> 0, game_copy |-> 0]

\* State.successors: a generator object.  Nothing of its body runs before
\* the first next(): the shuffle (ks is what it draws), the look at the mode
\* and the choice of the loop happen then.  i is the position of the outer loop (the first step of
\* the composite action), j the position of the loop over the opponent's
\* cells, game_copy the copy that holds the first step while j runs.
successors(st, shuffle) ==
    [st |-> st, shuffle |-> shuffle, started |-> FALSE,
     firsts |-> <<>>, ops |-> <<>>, i |-> 1, j |-> 0, game_copy |-> 0]

\* The outer loop of _generate_place_sucessors: every free cell.
place_firsts(st) ==
    [k \in 1..Len(st.free_pieces) |-> <<NoPos, st.free_pieces[k]>>]

\* Variant: the pieces tried are the opponent's.
move_firsts_opponent(st, turn) ==
    LET own == st.players[(1 - turn) + 1]
        free == st.free_pieces
        m == Len(free)
        pairs == [k \in 1..(Len(own) * m) |->
                     <<own[((k - 1) \div m) + 1], free[((k - 1) % m) + 1]>>]
    IN  SelectSeq(pairs, LAMBDA c : are_adjacent(c[1][1], c[1][2], c[2][1], c[2][2]))

\* The outer loops of _generate_move_sucessors: every own piece with every
\* free cell, those that are not adjacent skipped before any copy is made.
move_firsts(st, turn) ==
    LET own == st.players[turn + 1]
        free == st.free_pieces
        m == Len(free)
        pairs == [k \in 1..(Len(own) * m) |->
                     <<own[((k - 1) \div m) + 1], free[((k - 1) % m) + 1]>>]
    IN  SelectSeq(pairs, LAMBDA c : are_adjacent(c[1][1], c[1][2], c[2][1], c[2][2]))

\* Variant: the removal loop runs over the mover's own cells.
successors_start_own_cells(heap, gen, ks) ==
    LET st == IF gen.shuffle THEN shuffle_indices(gen.st, ks) ELSE gen.st
        g == heap[st.game]
    IN  [gen EXCEPT !.st = st,
                    !.started = TRUE,
                    !.firsts = IF g.mode = "PLACE" THEN place_firsts(st)
                               ELSE IF g.mode = "MOVE" THEN move_firsts(st, g.turn)
                               ELSE <<>>,
                    !.ops = st.players[g.turn + 1]]

successors_start(heap, gen, ks) ==
    LET st == IF gen.shuffle THEN shuffle_indices(gen.st, ks) ELSE gen.st
        g == heap[st.game]
    IN  [gen EXCEPT !.st = st,
                    !.started = TRUE,
                    !.firsts = IF g.mode = "PLACE" THEN place_firsts(st)
                               ELSE IF g.mode = "MOVE" THEN move_firsts(st, g.turn)
                               ELSE <<>>,
                    !.ops = st.players[(1 - g.turn) + 1]]

\* The body of _generate_place_sucessors and _generate_move_sucessors from
\* the generator's position to its next yield (state) or to its end
\* (NoState).  A candidate that raises is skipped; its copy stays garbage.
RECURSIVE generate_sucessors(_, _)
generate_sucessors(heap, gen) ==
    IF gen.i > Len(gen.firsts)
    THEN [heap |-> heap, gen |-> gen, state |-> NoState]
    ELSE
    LET first == gen.firsts[gen.i]
    IN  IF gen.game_copy = 0
        THEN Only({
               Only({
                 LET h == [c.heap EXCEPT ![c.id] = r.g]
                 IN  IF r.err # "none"
                     THEN generate_sucessors(h, [gen EXCEPT !.i = @ + 1])
                     ELSE IF r.g.has_to_delete
                     THEN generate_sucessors(h, [gen EXCEPT !.game_copy = c.id, !.j = 1])
                     ELSE [heap |-> h,
                           gen |-> [gen EXCEPT !.i = @ + 1],
                           state |-> State(h, c.id, MoveTag(first[2], first[1], NoPos))]
                 : r \in {IF first[1] = NoPos
                          THEN place(c.heap[c.id], first[2][1], first[2][2])
                          ELSE move(c.heap[c.id], first[1][1], first[1][2],
                                    first[2][1], first[2][2])}})
               : c \in {deepcopy(heap, gen.st.game)}})
        ELSE IF gen.j > Len(gen.ops)
        THEN generate_sucessors(heap, [gen EXCEPT !.i = @ + 1, !.game_copy = 0, !.j = 0])
        ELSE Only({
               Only({
                 LET op_pos == gen.ops[gen.j]
                     h == [c.heap EXCEPT ![c.id] = r.g]
                 IN  IF r.err # "none"
                     THEN generate_sucessors(h, [gen EXCEPT !.j = @ + 1])
                     ELSE [heap |-> h,
                           gen |-> [gen EXCEPT !.j = @ + 1],
                           state |-> State(h, c.id, MoveTag(first[2], first[1], op_pos))]
                 : r \in {remove(c.heap[c.id], gen.ops[gen.j][1], gen.ops[gen.j][2])}})
               : c \in {deepcopy(heap, gen.game_copy)}})

\* next(generator); ks is the shuffle drawn if this is the first next().
next(heap, gen, ks) ==
    Only({generate_sucessors(h, started)
              : h \in {heap},
                started \in {IF gen.started THEN gen ELSE successors_start(heap, gen, ks)}})

\* A for loop over the generator that stops after n states (n < 0: never).
RECURSIVE consume(_, _, _, _, _)
consume(heap, gen, ks, n, out) ==
    IF n = 0 THEN [heap |-> heap, gen |-> gen, states |-> out]
    ELSE Only({IF x.state = NoState
               THEN [heap |-> x.heap, gen |-> x.gen, states |-> out]
               ELSE consume(x.heap, x.gen, ks, n - 1, Append(out, x.state))
               : x \in {next(heap, gen, ks)}})

(***************************************************************************)
(* Agents (src/agents.py).  _next_state gives the heap it leaves, the      *)
(* chosen State (NoState for None) and the exception that escaped it.      *)
(***************************************************************************)
Chosen(heap, st, raised) == [heap |-> heap, state |-> st, raised |-> raised]

\* RandomAgent._next_state; ks is the shuffle drawn.
RandomAgent_next_state(heap, game_id, ks) ==
    IF heap[game_id].mode = "FINISHED" THEN Chosen(heap, NoState, "none")
    ELSE Only({Chosen(x.heap, x.state,
                      IF x.state = NoState THEN "StopIteration" ELSE "none")
               : x \in {next(heap, successors(State(heap, game_id, NoMove), TRUE), ks)}})

\* BaseAgent.perform_move after _next_state returned ch: the caller's object
\* takes the attributes of the chosen State's game.
perform_move(game_id, ch) ==
    IF ch.raised # "none" \/ ch.state = NoState
    THEN [heap |-> ch.heap, move |-> NoMove, raised |-> ch.raised]
    ELSE [heap |-> [ch.heap EXCEPT ![game_id] = ch.heap[ch.state.game]],
          move |-> ch.state.move,
          raised |-> "none"]

\* Variant: the chosen State's game is put into the caller's object.
next_move_in_place(ch) ==
    IF ch.raised # "none" \/ ch.state = NoState
    THEN [heap |-> ch.heap, move |-> NoMove, raised |-> ch.raised]
    ELSE [heap |-> [ch.heap EXCEPT ![1] = ch.heap[ch.state.game]],
          move |-> ch.state.move,
          raised |-> "none"]

\* BaseAgent.next_move after _next_state returned ch.
next_move(ch) ==
    IF ch.raised # "none" \/ ch.state = NoState
    THEN [heap |-> ch.heap, move |-> NoMove, raised |-> ch.raised]
    ELSE [heap |-> ch.heap, move |-> ch.state.move, raised |-> "none"]

\* The shuffle followed besides the one that leaves every list as it is.
ShufflesTried == {<<7, 1, 2>>}

(***************************************************************************)
(* MinimaxAgent.  A call gives the value it returns and the heap it        *)
(* leaves: the objects that existed before the call, as the call left      *)
(* them (the successors a call allocated are unreachable once it returns). *)
(* ks is what a shuffle would draw during the call.                        *)
(***************************************************************************)
\* float("inf"): above every value _evaluate can give.
Inf == 100

MaxOf(a, b) == IF a >= b THEN a ELSE b

MinOf(a, b) == IF a <= b THEN a ELSE b

\* MinimaxAgent._evaluate.
evaluate(g, current_turn) ==
    IF g.mode = "FINISHED"
    THEN LET w == winner(g).value
         IN  IF w # None THEN (IF w = current_turn THEN 7 ELSE -7) ELSE 0
    ELSE g.players[current_turn].remaining_pieces
             - g.players[1 - current_turn].remaining_pieces

Valued(heap, live, value) == [heap |-> SubSeq(heap, 1, live), value |-> value]

\* Variant of the cutoff test: the loop is left after its first successor
\* whatever the window is.
cutoff_after_first(alpha, beta) == alpha >= beta \/ alpha > -Inf \/ beta < Inf

\* if alpha >= beta: break
cutoff(alpha, beta) == alpha >= beta

\* A for loop over State(game).successors() is followed as its passes
\* lo..hi, one next() a pass, split in halves; loop is the loop's variables
\* and done says that the loop has been left (break, or the generator's
\* end).  The generator is started when the loop is entered, as its first
\* next() does.  PassesOf is a number of passes no loop over gen exceeds.
Loop(heap, game_id, value, alpha, beta, best_state, ks) ==
    [heap |-> heap,
     gen |-> successors_start(heap, successors(State(heap, game_id, NoMove), FALSE), ks),
     value |-> value, alpha |-> alpha, beta |-> beta, best_state |-> best_state,
     done |-> FALSE]

PassesOf(gen) == Len(gen.firsts) * MaxOf(1, Len(gen.ops)) + 1

RECURSIVE max_value(_, _, _, _, _, _, _)
RECURSIVE min_value(_, _, _, _, _, _, _)
RECURSIVE max_value_loop(_, _, _, _, _, _)
RECURSIVE min_value_loop(_, _, _, _, _, _)

\* One pass of the for loop of _max_value.
max_value_pass(loop, current_turn, depth, ks) ==
    Only({
      IF x.state = NoState THEN [loop EXCEPT !.heap = x.heap, !.gen = x.gen, !.done = TRUE]
      ELSE Only({
             [loop EXCEPT !.heap = r.heap,
                          !.gen = x.gen,
                          !.value = MaxOf(loop.value, r.value),
                          !.alpha = MaxOf(loop.alpha, MaxOf(loop.value, r.value)),
                          !.done = cutoff(MaxOf(loop.alpha, MaxOf(loop.value, r.value)),
                                          loop.beta)]
             : r \in {min_value(x.heap, x.state.game, current_turn,
                                loop.alpha, loop.beta, depth - 1, ks)}})
      : x \in {next(loop.heap, loop.gen, ks)}})

\* One pass of the for loop of _min_value.
min_value_pass(loop, current_turn, depth, ks) ==
    Only({
      IF x.state = NoState THEN [loop EXCEPT !.heap = x.heap, !.gen = x.gen, !.done = TRUE]
      ELSE Only({
             [loop EXCEPT !.heap = r.heap,
                          !.gen = x.gen,
                          !.value = MinOf(loop.value, r.value),
                          !.beta = MinOf(loop.beta, MinOf(loop.value, r.value)),
                          !.done = cutoff(loop.alpha,
                                          MinOf(loop.beta, MinOf(loop.value, r.value)))]
             : r \in {max_value(x.heap, x.state.game, current_turn,
                                loop.alpha, loop.beta, depth - 1, ks)}})
      : x \in {next(loop.heap, loop.gen, ks)}})

max_value_loop(loop, lo, hi, current_turn, depth, ks) ==
    IF loop.done THEN loop
    ELSE IF lo = hi THEN max_value_pass(loop, current_turn, depth, ks)
    ELSE Only({max_value_loop(half, ((lo + hi) \div 2) + 1, hi, current_turn, depth, ks)
               : half \in {max_value_loop(loop, lo, (lo + hi) \div 2,
                                          current_turn, depth, ks)}})

min_value_loop(loop, lo, hi, current_turn, depth, ks) ==
    IF loop.done THEN loop
    ELSE IF lo = hi THEN min_value_pass(loop, current_turn, depth, ks)
    ELSE Only({min_value_loop(half, ((lo + hi) \div 2) + 1, hi, current_turn, depth, ks)
               : half \in {min_value_loop(loop, lo, (lo + hi) \div 2,
                                          current_turn, depth, ks)}})

\* MinimaxAgent._max_value.
max_value(heap, game_id, current_turn, alpha, beta, depth, ks) ==
    IF depth = 0 \/ heap[game_id].mode = "FINISHED"
    THEN [heap |-> heap, value |-> evaluate(heap[game_id], current_turn)]
    ELSE Only({Valued(r.heap, Len(heap), r.value)
               : r \in {max_value_loop(loop, 1, PassesOf(loop.gen), current_turn, depth, ks)
                           : loop \in {Loop(heap, game_id, -Inf, alpha, beta, NoState, ks)}}})

\* MinimaxAgent._min_value.
min_value(heap, game_id, current_turn, alpha, beta, depth, ks) ==
    IF depth = 0 \/ heap[game_id].mode = "FINISHED"
    THEN [heap |-> heap, value |-> evaluate(heap[game_id], current_turn)]
    ELSE Only({Valued(r.heap, Len(heap), r.value)
               : r \in {min_value_loop(loop, 1, PassesOf(loop.gen), current_turn, depth, ks)
                           : loop \in {Loop(heap, game_id, Inf, alpha, beta, NoState, ks)}}})

\* Variant: a successor that is as good as the best one replaces it.
better_or_equal(value, best_value) == value >= best_value

\* if value > best_value
better(value, best_value) == value > best_value

\* One pass of the for loop of MinimaxAgent._next_state; value is
\* best_value.  The successors stay on the heap: best_state is one of them.
Minimax_next_state_pass(loop, current_turn, max_depth, ks) ==
    Only({
      IF x.state = NoState THEN [loop EXCEPT !.heap = x.heap, !.gen = x.gen, !.done = TRUE]
      ELSE Only({
             IF better(r.value, loop.value)
             THEN [loop EXCEPT !.heap = r.heap, !.gen = x.gen,
                               !.value = r.value, !.best_state = x.state]
             ELSE [loop EXCEPT !.heap = r.heap, !.gen = x.gen]
             : r \in {min_value(x.heap, x.state.game, current_turn,
                                -Inf, Inf, max_depth, ks)}})
      : x \in {next(loop.heap, loop.gen, ks)}})

RECURSIVE Minimax_next_state_loop(_, _, _, _, _, _)
Minimax_next_state_loop(loop, lo, hi, current_turn, max_depth, ks) ==
    IF loop.done THEN loop
    ELSE IF lo = hi THEN Minimax_next_state_pass(loop, current_turn, max_depth, ks)
    ELSE Only({Minimax_next_state_loop(half, ((lo + hi) \div 2) + 1, hi,
                                       current_turn, max_depth, ks)
               : half \in {Minimax_next_state_loop(loop, lo, (lo + hi) \div 2,
                                                   current_turn, max_depth, ks)}})

\* MinimaxAgent._next_state.
Minimax_next_state(heap, game_id, max_depth, ks) ==
    IF heap[game_id].mode = "FINISHED" THEN Chosen(heap, NoState, "none")
    ELSE Only({Chosen(r.heap, r.best_state, "none")
               : r \in {Minimax_next_state_loop(loop, 1, PassesOf(loop.gen),
                                                heap[game_id].turn, max_depth, ks)
                           : loop \in {Loop(heap, game_id, -Inf, -Inf, Inf, NoState, ks)}}})

(***************************************************************************)
(* Monte Carlo tree search.  A tree is the sequence of its nodes in the    *)
(* order they were created, the root first; a node is its index.  Rewards  *)
(* are counted in halves (a tie is worth 1, a win 2), so that              *)
(* accumulated_rewards holds twice the program's number.  Where the        *)
(* program draws at random or compares UCT scores the operators give the   *)
(* set of the outcomes followed.                                           *)
(***************************************************************************)
\* MontecarloNode(state, parent); parent 0 is None.
MontecarloNode(st, parent) ==
    [state |-> st,
     parent |-> parent,
     visits |-> 0,
     accumulated_rewards |-> 0,
     expanded_children |-> <<>>,
     sucessors |-> successors(st, TRUE)]

\* MonteCarloTree.__init__: the root wraps the game it is given.
MonteCarloTree(heap, game_id) ==
    [nodes |-> <<MontecarloNode(State(heap, game_id, NoMove), 0)>>,
     current_turn |-> heap[game_id].turn]

\* Variant: the generator's position is not kept, so that each call wraps
\* the first successor again.
next_child_keeping_generator(tree, heap, node, ks) ==
    Only({
      LET child == Len(tree.nodes) + 1
      IN  IF x.state = NoState
          THEN [tree |-> tree, heap |-> x.heap, child |-> 0]
          ELSE [tree |-> [tree EXCEPT !.nodes =
                             Append([@ EXCEPT ![node].expanded_children = Append(@, child)],
                                    MontecarloNode(x.state, node))],
                heap |-> x.heap, child |-> child]
      : x \in {next(heap, tree.nodes[node].sucessors, ks)}})

\* MontecarloNode.next_child; child 0 is None.
next_child(tree, heap, node, ks) ==
    Only({
      LET child == Len(tree.nodes) + 1
      IN  IF x.state = NoState
          THEN [tree |-> [tree EXCEPT !.nodes[node].sucessors = x.gen],
                heap |-> x.heap, child |-> 0]
          ELSE [tree |-> [tree EXCEPT !.nodes =
                             Append([@ EXCEPT ![node].sucessors = x.gen,
                                              ![node].expanded_children = Append(@, child)],
                                    MontecarloNode(x.state, node))],
                heap |-> x.heap, child |-> child]
      : x \in {next(heap, tree.nodes[node].sucessors, ks)}})

\* What evaluating MontecarloNode.uct_value raises.
uct_value_raised(tree, node) ==
    LET n == tree.nodes[node]
    IN  IF n.parent = 0 THEN "ValueError"
        ELSE IF tree.nodes[n.parent].visits = 0 THEN "ValueError"
        ELSE IF n.visits = 0 THEN "ZeroDivisionError"
        ELSE "none"

\* MontecarloNode.get_best_child: max() over the expanded children by UCT
\* score.  The score is a real number (a logarithm and a square root); every
\* expanded child is followed as the one with the highest score.
get_best_child(tree, node) ==
    LET children == tree.nodes[node].expanded_children
        bad == {i \in 1..Len(children) : uct_value_raised(tree, children[i]) # "none"}
    IN  IF Len(children) = 0 THEN [raised |-> "ValueError", children |-> {}]
        ELSE IF bad # {}
        THEN [raised |-> uct_value_raised(
                             tree, children[CHOOSE i \in bad : \A j \in bad : i <= j]),
              children |-> {}]
        ELSE [raised |-> "none", children |-> {children[i] : i \in 1..Len(children)}]

is_terminal(tree, heap, node) == heap[tree.nodes[node].state.game].mode = "FINISHED"

Selected(tree, heap, node, raised) ==
    [tree |-> tree, heap |-> heap, node |-> node, raised |-> raised]

\* MonteCarloTree.tree_policy from current_node on; ks is the shuffle drawn
\* if a generator is started.
RECURSIVE tree_policy(_, _, _, _)
tree_policy(tree, heap, current_node, ks) ==
    IF is_terminal(tree, heap, current_node)
    THEN {Selected(tree, heap, current_node, "none")}
    ELSE UNION {
           IF x.child # 0 THEN {Selected(x.tree, x.heap, x.child, "none")}
           ELSE UNION {
                  IF best.raised # "none"
                  THEN {Selected(x.tree, x.heap, current_node, best.raised)}
                  ELSE UNION {tree_policy(x.tree, x.heap, c, ks) : c \in best.children}
                  : best \in {get_best_child(x.tree, current_node)}}
           : x \in {next_child(tree, heap, current_node, ks)}}

\* What a rollout returns for a FINISHED game, in halves.
reward_of(g, current_turn) ==
    LET w == winner(g)
    IN  IF w.raised # "none" THEN [reward |-> 0, raised |-> w.raised]
        ELSE IF w.value = None THEN [reward |-> 1, raised |-> "none"]
        ELSE IF w.value = current_turn THEN [reward |-> 2, raised |-> "none"]
        ELSE [reward |-> 0, raised |-> "none"]

\* MonteCarloTree.default_policy on the game object game_id: the set of
\* [heap, reward, raised] over the shuffles followed at every step.  The
\* States a step allocated are unreachable once perform_move has returned.
RECURSIVE default_policy(_, _, _)
default_policy(heap, game_id, current_turn) ==
    IF heap[game_id].mode = "FINISHED"
    THEN LET r == reward_of(heap[game_id], current_turn)
         IN  {[heap |-> heap, reward |-> r.reward, raised |-> r.raised]}
    ELSE UNION {IF pm.raised # "none"
                THEN {[heap |-> pm.heap, reward |-> 0, raised |-> pm.raised]}
                ELSE UNION {default_policy(h, game_id, current_turn)
                                : h \in {SubSeq(pm.heap, 1, Len(heap))}}
                : pm \in {perform_move(game_id, ch)
                              : ch \in {RandomAgent_next_state(heap, game_id, ks)
                                            : ks \in ShufflesTried \cup {<<0, 0, 0>>}}}}

\* The sums of the rewards of runs simulations.
RECURSIVE sum_of_rewards(_, _)
sum_of_rewards(rewards, runs) ==
    IF runs = 0 THEN {0}
    ELSE {r + rest : r \in rewards, rest \in sum_of_rewards(rewards, runs - 1)}

\* Variant: the walk stops below the root.
RECURSIVE backup_below_root(_, _, _, _)
backup_below_root(tree, node, reward, visited) ==
    IF node = 0 \/ tree.nodes[node].parent = 0 THEN tree
    ELSE Only({backup_below_root(t, tree.nodes[node].parent, reward, visited)
               : t \in {[tree EXCEPT !.nodes[node].visits = @ + visited,
                                     !.nodes[node].accumulated_rewards = @ + reward]}})

\* Variant: the walk starts at the parent of the selected node.
backup_ancestors(tree, node, reward, visited) ==
    IF node = 0 THEN tree
    ELSE backup_below_root(
             [tree EXCEPT !.nodes[1].visits = @ + visited,
                          !.nodes[1].accumulated_rewards = @ + reward],
             tree.nodes[node].parent, reward, visited)

\* MonteCarloTree.backup.
RECURSIVE backup(_, _, _, _)
backup(tree, node, reward, visited) ==
    IF node = 0 THEN tree
    ELSE Only({backup(t, tree.nodes[node].parent, reward, visited)
               : t \in {[tree EXCEPT !.nodes[node].visits = @ + visited,
                                     !.nodes[node].accumulated_rewards = @ + reward]}})

\* _SimulationExecutor; the agent without one has NoExecutor.
NoExecutor == [present |-> FALSE, runs |-> 1]

SimulationExecutor(runs) == [present |-> TRUE, runs |-> runs]

Iterated(tree, heap, selected, reward, visited, raised) ==
    [tree |-> tree, heap |-> heap, selected |-> selected, reward |-> reward,
     visited |-> visited, raised |-> raised]

\* MonteCarloTree.run_iteration: the set of the outcomes followed.  With an
\* executor each simulation runs in another process on its own pickled copy
\* of the selected game; without one the rollout plays on a deepcopy, which
\* is unreachable once default_policy has returned.
run_iteration(tree, heap, executor) ==
    UNION {
      IF tp.raised # "none"
      THEN {Iterated(tp.tree, tp.heap, tp.node, 0, 0, tp.raised)}
      ELSE IF executor.present /\ executor.runs > 1
      THEN UNION {
             IF \E o \in sims : o.raised # "none"
             THEN {Iterated(tp.tree, tp.heap, tp.node, 0, 0, o.raised)
                       : o \in {q \in sims : q.raised # "none"}}
             ELSE {Iterated(backup(tp.tree, tp.node, reward, executor.runs),
                            tp.heap, tp.node, reward, executor.runs, "none")
                       : reward \in sum_of_rewards({o.reward : o \in sims}, executor.runs)}
             : sims \in {default_policy(
                             <<tp.heap[tp.tree.nodes[tp.node].state.game]>>, 1,
                             tp.tree.current_turn)}}
      ELSE UNION {
             {IF o.raised # "none"
              THEN Iterated(tp.tree, SubSeq(o.heap, 1, Len(tp.heap)),
                            tp.node, 0, 0, o.raised)
              ELSE Iterated(backup(tp.tree, tp.node, o.reward, 1),
                            SubSeq(o.heap, 1, Len(tp.heap)),
                            tp.node, o.reward, 1, "none")
                  : o \in default_policy(c.heap, c.id, tp.tree.current_turn)}
             : c \in {deepcopy(tp.heap, tp.tree.nodes[tp.node].state.game)}}
      : tp \in UNION {tree_policy(tree, heap, 1, ks)
                          : ks \in ShufflesTried \cup {<<0, 0, 0>>}}}

\* Variant of the comparison: an equal average counts as greater.
avg_reward_not_less(a, b) ==
    a.accumulated_rewards * b.visits >= b.accumulated_rewards * a.visits

\* MontecarloNode.avg_reward compared: a / v > b / w for positive visits.
avg_reward_greater(a, b) ==
    a.accumulated_rewards * b.visits > b.accumulated_rewards * a.visits

\* max(children, key=MontecarloNode.avg_reward) from the i-th child on: the
\* best so far is replaced only by a child whose key is greater.
RECURSIVE max_avg_reward(_, _, _, _)
max_avg_reward(tree, children, i, best) ==
    IF i > Len(children) THEN best
    ELSE max_avg_reward(tree, children, i + 1,
                        IF avg_reward_greater(tree.nodes[children[i]], tree.nodes[best])
                        THEN children[i] ELSE best)

\* MonteCarloTree.best_node; avg_reward raises for a child never visited.
best_node(tree) ==
    LET children == tree.nodes[1].expanded_children
    IN  IF Len(children) = 0 THEN [node |-> 0, raised |-> "ValueError"]
        ELSE IF \E i \in 1..Len(children) : tree.nodes[children[i]].visits = 0
        THEN [node |-> 0, raised |-> "ValueError"]
        ELSE [node |-> max_avg_reward(tree, children, 2, children[1]),
              raised |-> "none"]

\* The for loop of MCTSAgent._next_state with n iterations left: the set of
\* the [tree, heap, raised] it can end with.
RECURSIVE run_iterations(_, _, _, _)
run_iterations(tree, heap, executor, n) ==
    IF n = 0 THEN {[tree |-> tree, heap |-> heap, raised |-> "none"]}
    ELSE UNION {IF it.raised # "none"
                THEN {[tree |-> it.tree, heap |-> it.heap, raised |-> it.raised]}
                ELSE run_iterations(it.tree, it.heap, executor, n - 1)
                : it \in run_iteration(tree, heap, executor)}

\* return self.montecarlo_tree.best_node().state
best_state(tree, heap) ==
    LET best == best_node(tree)
    IN  IF best.raised # "none" THEN Chosen(heap, NoState, best.raised)
        ELSE Chosen(heap, tree.nodes[best.node].state, "none")

\* MCTSAgent._next_state: the set of what it can return.
MCTSAgent_next_state(heap, game_id, iterations, executor) ==
    {IF r.raised # "none" THEN Chosen(r.heap, NoState, r.raised)
     ELSE best_state(r.tree, r.heap)
         : r \in run_iterations(MonteCarloTree(heap, game_id), heap, executor,
                                iterations)}

(***************************************************************************)
(* A game played by RandomAgent.perform_move on the caller's game: every   *)
(* step is one whole composite action that stays within the input cells.   *)
(***************************************************************************)
\* The shuffles followed: those that bring an input cell to the front of the
\* free cells, with every rotation of the lists the enumeration reads (the
\* opponent's cells, and the mover's own cells in the moving phase).
Shuffles(g) ==
    LET info == GameInfo(g)
        Ks(seq, read) == IF read /\ Len(seq) > 0 THEN 0..(Len(seq) - 1) ELSE {0}
    IN  {k \in Ks(info.free_pieces, TRUE) : info.free_pieces[k + 1] \in InputCells}
            \X Ks(info.white_player_pieces, g.mode = "MOVE" \/ g.turn = BLACK)
            \X Ks(info.black_player_pieces, g.mode = "MOVE" \/ g.turn = WHITE)

WithinInputCells(m) ==
    /\ m.next_pos \in InputCells
    /\ m.pos_init \in InputCells \cup {NoPos}
    /\ m.kill \in InputCells \cup {NoPos}

RandomMoves(g) ==
    {perform_move(1, RandomAgent_next_state(<<g>>, 1, ks)) : ks \in Shuffles(g)}

RandomAgentPerformMove ==
    /\ Followed
    /\ \E r \in RandomMoves(game) :
           /\ r.raised = "none"
           /\ r.move # NoMove
           /\ WithinInputCells(r.move)
           /\ game' = r.heap[1]
           /\ lastOp' = "perform_move"
           /\ UNCHANGED agent

\* The games played: without a move cap (followed for MaxMoves movements) or
\* with the cap MaxCap; with 3 pieces a side (the first removal eliminates) or
\* with NUM_PIECES_PER_PLAYER.
PlayInit ==
    /\ \E turn \in {WHITE, BLACK} : \E max_movements \in {None, MaxCap} :
       \E pieces \in {3, NUM_PIECES_PER_PLAYER} :
           game = MillGame(turn, max_movements, pieces)
    /\ lastOp = "new"
    /\ agent = NoSearch

PlayNext == RandomAgentPerformMove

PlaySpec == PlayInit /\ [][PlayNext]_vars

(***************************************************************************)
(* HybridAgent and QAgent.                                                 *)
(***************************************************************************)
\* HybridAgent._next_state with the agent's turn_counter: the set of what it
\* can return.
HybridAgent_next_state(heap, game_id, n_iterations, max_depth, mcts_limit, turn_counter) ==
    IF heap[game_id].mode = "FINISHED" THEN {Chosen(heap, NoState, "none")}
    ELSE IF turn_counter < mcts_limit
    THEN MCTSAgent_next_state(heap, game_id, n_iterations, NoExecutor)
    ELSE {Minimax_next_state(heap, game_id, max_depth, <<0, 0, 0>>)}

\* MillGame.apply_move.
apply_move(g, m) ==
    IF m.pos_init = NoPos
    THEN IF m.kill = NoPos
         THEN place(g, m.next_pos[1], m.next_pos[2])
         ELSE place_and_remove(g, m.next_pos[1], m.next_pos[2], m.kill[1], m.kill[2])
    ELSE IF m.kill = NoPos
         THEN move(g, m.pos_init[1], m.pos_init[2], m.next_pos[1], m.next_pos[2])
         ELSE move_and_remove(g, m.pos_init[1], m.pos_init[2],
                              m.next_pos[1], m.next_pos[2], m.kill[1], m.kill[2])

\* QAgent._next_state; best_move is what q_table.best_move(state) returns
\* (NoMove for None) and alternative what the alternative agent's
\* _next_state can return.
QAgent_next_state(heap, game_id, best_move, alternative) ==
    IF heap[game_id].mode = "FINISHED" THEN {Chosen(heap, NoState, "none")}
    ELSE IF best_move = NoMove THEN alternative
    ELSE LET c == deepcopy(heap, game_id)
             o == apply_move(c.heap[c.id], best_move)
             after == [c.heap EXCEPT ![c.id] = o.g]
         IN  IF o.err # "none" THEN {Chosen(after, NoState, o.err)}
             ELSE {Chosen(after, State(after, c.id, best_move), "none")}

(***************************************************************************)
(* A game in its moving phase played by the searching agents: MCTSAgent    *)
(* one run_iteration a step, MinimaxAgent a whole perform_move a step.     *)
(***************************************************************************)
\* The movements left after the opening before the games' move cap.
MaxPlies == 4

\* MCTSAgent(iterations, runs): up to MaxIterations and MaxRuns.
MaxIterations == 4

MaxRuns == 2

\* MinimaxAgent(max_depth): up to MaxDepth.
MaxDepth == 2

\* The opening: the caller places on the cells listed, then
\* RandomAgent.perform_move with the same shuffle at every step until the
\* placing phase is over.
RECURSIVE place_all(_, _)
place_all(g, cells) ==
    IF cells = <<>> THEN g
    ELSE place_all(place(g, Head(cells)[1], Head(cells)[2]).g, Tail(cells))

RECURSIVE play_opening(_, _)
play_opening(g, ks) ==
    IF g.mode # "PLACE" THEN g
    ELSE play_opening(perform_move(1, RandomAgent_next_state(<<g>>, 1, ks)).heap[1], ks)

\* The player who starts holds two cells of a line across the rings and can
\* bring a third piece next to the line's last cell, which the opponent can
\* then block or not.
ThreatCells == << <<0, 1>>, <<2, 2>>, <<1, 1>>, <<2, 4>>, <<2, 7>>, <<2, 5>> >>

\* The opponent of the player who starts holds two cells of that line with
\* a third piece already next to its last cell; the starter can step into
\* that cell, but not with the first move of the enumeration.
ParryCells == << <<0, 4>>, <<0, 1>>, <<0, 5>>, <<1, 1>>, <<2, 2>>, <<2, 0>> >>

\* The player who starts has three moves only, and none of them reaches
\* the cell with which the opponent can close a line of a ring.
CrampedCells == << <<0, 7>>, <<0, 6>>, <<0, 0>>, <<0, 5>>, <<0, 1>>, <<0, 3>> >>

Openings ==
    {[cells |-> <<>>, ks |-> <<k, 0, 0>>] : k \in {0, 3, 7, 11}}
        \cup {[cells |-> ThreatCells, ks |-> <<0, 0, 0>>],
              [cells |-> ParryCells, ks |-> <<0, 0, 0>>],
              [cells |-> CrampedCells, ks |-> <<0, 0, 0>>]}

Executors == {NoExecutor} \cup {SimulationExecutor(runs) : runs \in 1..MaxRuns}

\* The games the agents are asked about: after one of the openings.
InitAfter(openings) ==
    /\ \E turn \in {WHITE, BLACK} : \E opening \in openings :
       \E pieces \in {3, NUM_PIECES_PER_PLAYER} :
           game = play_opening(
                      place_all(MillGame(turn, 2 * pieces + MaxPlies, pieces),
                                opening.cells),
                      opening.ks)
    /\ lastOp = "new"
    /\ agent = NoSearch

AgentInit == InitAfter(Openings)

\* MCTSAgent._next_state up to its loop: the tree is made on the caller's
\* game, object 1 of the heap.  The agent's iterations, any number up to
\* MaxIterations, is the number of passes after which the search is ended.
MCTSNextState ==
    /\ ~agent.searching
    /\ \E executor \in Executors :
           agent' = [searching |-> TRUE,
                     executor |-> executor,
                     montecarlo_tree |-> MonteCarloTree(<<game>>, 1),
                     heap |-> <<game>>,
                     done |-> 0,
                     selected |-> 0,
                     reward |-> 0]
    /\ lastOp' = "_next_state"
    /\ UNCHANGED game

\* One pass of the loop of MCTSAgent._next_state.
MCTSRunIteration ==
    /\ agent.searching
    /\ agent.done < MaxIterations
    /\ \E it \in run_iteration(agent.montecarlo_tree, agent.heap, agent.executor) :
           IF it.raised # "none"
           THEN /\ agent' = NoSearch
                /\ game' = it.heap[1]
                /\ lastOp' = it.raised
           ELSE /\ agent' = [agent EXCEPT !.montecarlo_tree = it.tree,
                                          !.heap = it.heap,
                                          !.done = @ + 1,
                                          !.selected = it.selected,
                                          !.reward = it.reward]
                /\ UNCHANGED <<game, lastOp>>

\* The caller's game after next_move or perform_move returned or raised.
Returned(op, r) ==
    /\ agent' = NoSearch
    /\ game' = r.heap[1]
    /\ lastOp' = IF r.raised # "none" THEN r.raised ELSE op

\* The end of MCTSAgent._next_state inside next_move.
MCTSNextMove ==
    /\ agent.searching
    /\ Returned("next_move", next_move(best_state(agent.montecarlo_tree, agent.heap)))

\* The end of MCTSAgent._next_state inside perform_move.
MCTSPerformMove ==
    /\ agent.searching
    /\ Returned("perform_move",
                perform_move(1, best_state(agent.montecarlo_tree, agent.heap)))

AgentNext ==
    \/ MCTSNextState
    \/ MCTSRunIteration
    \/ MCTSNextMove
    \/ MCTSPerformMove

AgentSpec == AgentInit /\ [][AgentNext]_vars

(***************************************************************************)
(* MinimaxSpec: the same games, played by a MinimaxAgent of any depth up   *)
(* to MaxDepth against a RandomAgent.                                      *)
(***************************************************************************)
MinimaxPerformMove ==
    /\ ~agent.searching
    /\ \E max_depth \in 0..MaxDepth :
           Returned("perform_move",
                    perform_move(1, Minimax_next_state(<<game>>, 1, max_depth, <<0, 0, 0>>)))

RandomReply ==
    /\ ~agent.searching
    /\ \E ks \in ShufflesTried \cup {<<0, 0, 0>>} :
           Returned("perform_move",
                    perform_move(1, RandomAgent_next_state(<<game>>, 1, ks)))

MinimaxNext ==
    \/ MinimaxPerformMove
    \/ RandomReply

\* The games played by the MinimaxAgent: two of the openings left to the
\* RandomAgent, the threat and the parry.
MinimaxInit ==
    InitAfter({[cells |-> <<>>, ks |-> <<k, 0, 0>>] : k \in {0, 7}}
                  \cup {[cells |-> ThreatCells, ks |-> <<0, 0, 0>>],
                        [cells |-> ParryCells, ks |-> <<0, 0, 0>>]})

MinimaxSpec == MinimaxInit /\ [][MinimaxNext]_vars

(***************************************************************************)
(* Move.to_compressed and Move.from_compressed: a move as one integer of   *)
(* three 8-bit fields.                                                     *)
(***************************************************************************)
\* The field of an absent position.
Absent == 255

\* ring * 8 + cell, or 0xFF for None.
Field(pos) == IF pos = NoPos THEN Absent ELSE pos[1] * 8 + pos[2]

\* Variant: the fields are 4 bits apart.
to_compressed_narrow(m) ==
    Field(m.next_pos) * (2 ^ 8) + Field(m.pos_init) * (2 ^ 4) + Field(m.kill)

\* Move.to_compressed: (next_pos << 16) + (pos_init << 8) + kill.
to_compressed(m) ==
    Field(m.next_pos) * (2 ^ 16) + Field(m.pos_init) * (2 ^ 8) + Field(m.kill)

\* divmod(field, 8)
divmod8(field) == <<field \div 8, field % 8>>

\* Move.from_compressed: next_pos is whatever lies above bit 16.
from_compressed(compressed) ==
    LET next_pos == compressed \div (2 ^ 16)
        pos_init == (compressed \div (2 ^ 8)) % (2 ^ 8)
        kill == compressed % (2 ^ 8)
    IN  MoveTag(divmod8(next_pos),
                IF pos_init = Absent THEN NoPos ELSE divmod8(pos_init),
                IF kill = Absent THEN NoPos ELSE divmod8(kill))

(***************************************************************************)
(* QTable.  A reward is a fraction <<numerator, denominator>> in lowest    *)
(* terms with a positive denominator; the learning rates and discounts     *)
(* followed are fractions of a power of two and the rewards small          *)
(* integers, for which the program's floating point arithmetic is exact.   *)
(* NoReward is None.  The table maps a state key to the list of its        *)
(* (move key, reward) pairs in the order the dict received the keys.       *)
(***************************************************************************)
RECURSIVE Gcd(_, _)
Gcd(a, b) == IF b = 0 THEN a ELSE Gcd(b, a % b)

Float(n, d) ==
    LET g == Gcd(Abs(n), d)
    IN  <<n \div g, d \div g>>

NoReward == <<0, 0>>

plus(x, y) == Float(x[1] * y[2] + y[1] * x[2], x[2] * y[2])

minus(x, y) == Float(x[1] * y[2] - y[1] * x[2], x[2] * y[2])

times(x, y) == Float(x[1] * y[1], x[2] * y[2])

greater(x, y) == x[1] * y[2] > y[1] * x[2]

\* QTable.__init__: the empty dict.
QTable == [k \in {} |-> <<>>]

\* Variant of _get_state_key: the text is taken from the State's own lists
\* of free, white and black cells.
get_state_key_of_lists(heap, st) ==
    [game_info |-> [free_pieces |-> st.free_pieces,
                    white_player_pieces |-> st.players[1],
                    black_player_pieces |-> st.players[2]],
     turn |-> heap[st.game].turn,
     remaining_players |-> <<heap[st.game].players[WHITE].remaining_pieces,
                             heap[st.game].players[BLACK].remaining_pieces>>]

\* QTable._get_state_key: the md5 of the text of the State's GameInfo, the
\* game's turn and both remaining_pieces; the key is that text's content.
get_state_key(heap, st) ==
    [game_info |-> st.game_info,
     turn |-> heap[st.game].turn,
     remaining_players |-> <<heap[st.game].players[WHITE].remaining_pieces,
                             heap[st.game].players[BLACK].remaining_pieces>>]

\* QTable._get_move_key: the decimal text of the packed move.
get_move_key(m) == to_compressed(m)

\* dict.get(move_key) on a move table: the position of the key, 0 if absent.
PositionOf(move_table, move_key) ==
    IF \E i \in 1..Len(move_table) : move_table[i].key = move_key
    THEN CHOOSE i \in 1..Len(move_table) : move_table[i].key = move_key
    ELSE 0

\* What a read of the table leaves and returns.
Read(table, result) == [table |-> table, result |-> result]

\* Variant of get_reward: a missing entry is created with 0, as
\* dict.setdefault would.
get_reward_setdefault(table, heap, st, m) ==
    LET state_key == get_state_key(heap, st)
        move_key == get_move_key(m)
        move_table == IF state_key \in DOMAIN table THEN table[state_key] ELSE <<>>
        at == PositionOf(move_table, move_key)
        filled == IF at # 0 THEN move_table
                  ELSE Append(move_table, [key |-> move_key, reward |-> Float(0, 1)])
    IN  Read([k \in DOMAIN table \cup {state_key} |->
                 IF k = state_key THEN filled ELSE table[k]],
             IF at # 0 THEN move_table[at].reward ELSE NoReward)

\* QTable.get_reward.
get_reward(table, heap, st, m) ==
    LET state_key == get_state_key(heap, st)
        move_key == get_move_key(m)
    IN  IF state_key \notin DOMAIN table THEN Read(table, NoReward)
        ELSE LET at == PositionOf(table[state_key], move_key)
             IN  IF at = 0 THEN Read(table, NoReward)
                 ELSE Read(table, table[state_key][at].reward)

\* Variant of the update: the learning rate is not applied to the old value.
value_keeping_old(current_reward, reward, max_reward, lr, df) ==
    plus(current_reward, times(lr, plus(reward, times(df, max_reward))))

\* value = current_reward + lr * (reward + df * max_reward - current_reward)
value(current_reward, reward, max_reward, lr, df) ==
    plus(current_reward,
         times(lr, minus(plus(reward, times(df, max_reward)), current_reward)))

\* QTable.apply_reward: the table it leaves.
apply_reward(table, heap, st, m, reward, max_reward, lr, df, initial_value) ==
    LET stored == get_reward(table, heap, st, m)
        current_reward == IF stored.result = NoReward THEN initial_value
                          ELSE stored.result
        new == value(current_reward, reward, max_reward, lr, df)
        state_key == get_state_key(heap, st)
        move_key == get_move_key(m)
        move_table == IF state_key \in DOMAIN stored.table
                      THEN stored.table[state_key] ELSE <<>>
        at == PositionOf(move_table, move_key)
        written == IF at = 0
                   THEN Append(move_table, [key |-> move_key, reward |-> new])
                   ELSE [move_table EXCEPT ![at].reward = new]
    IN  [k \in DOMAIN stored.table \cup {state_key} |->
            IF k = state_key THEN written ELSE stored.table[k]]

\* max(all_pairs, key=lambda pair: pair[0]) from the i-th pair on.
RECURSIVE max_pair(_, _, _)
max_pair(move_table, i, best) ==
    IF i > Len(move_table) THEN best
    ELSE max_pair(move_table, i + 1,
                  IF greater(move_table[i].reward, move_table[best].reward)
                  THEN i ELSE best)

NoPair == [reward |-> NoReward, move |-> NoMove]

\* QTable.max_reward_move.
max_reward_move(table, heap, st) ==
    LET state_key == get_state_key(heap, st)
    IN  IF state_key \notin DOMAIN table THEN Read(table, NoPair)
        ELSE IF Len(table[state_key]) = 0 THEN Read(table, NoPair)
        ELSE LET best == max_pair(table[state_key], 2, 1)
             IN  Read(table, [reward |-> table[state_key][best].reward,
                              move |-> from_compressed(table[state_key][best].key)])

\* QTable.best_move.
best_move(table, heap, st) ==
    LET reward_move == max_reward_move(table, heap, st)
    IN  Read(reward_move.table, reward_move.result.move)

\* QTable.max_reward.
max_reward(table, heap, st) ==
    LET reward_move == max_reward_move(table, heap, st)
    IN  Read(reward_move.table, reward_move.result.reward)

(***************************************************************************)
(* QSpec: a QTable filled by Trainer._run_episode and by direct calls of   *)
(* apply_reward, read by get_reward, best_move and max_reward, and played  *)
(* by a QAgent whose alternative agent is a RandomAgent.  game is the game *)
(* of the Trainer's current State; agent holds the table and the number of *)
(* updates made.  The games are followed for MaxCap movements.             *)
(***************************************************************************)
\* The calls of apply_reward followed.
MaxUpdates == 2

\* _default_reward_fn(state, initial_turn)
default_reward_fn(heap, st, initial_turn) ==
    LET g == heap[st.game]
        ended == IF g.mode = "FINISHED"
                 THEN IF winner(g).value = initial_turn THEN 100 ELSE -100
                 ELSE -1
        mill == IF st.move # NoMove /\ st.move.kill # NoPos
                THEN IF g.turn # initial_turn THEN 30 ELSE -30
                ELSE 0
    IN  ended + mill

\* The learning rates, discounts and initial values of the calls followed.
Half == Float(1, 2)

Quarter == Float(1, 4)

Zero == Float(0, 1)

One == Float(1, 1)

Rewards == {Float(-1, 1), Float(3, 1)}

MaxRewards == {Zero, Float(2, 1)}

\* <<lr, df, initial_value>>
Rates == {<<Half, Half, Zero>>, <<Quarter, One, One>>}

\* A move that is never legal in the games followed: no piece reaches the
\* inner ring's cell 6.
StrayMove == MoveTag(<<2, 7>>, <<2, 6>>, NoPos)

QAgentOf(table, updates, initial_turn) ==
    [searching |-> FALSE, q_table |-> table, updates |-> updates,
     initial_turn |-> initial_turn]

\* Trainer.train: an episode starts from a new game; the table is empty.
QInit ==
    /\ \E turn \in {WHITE, BLACK} : \E max_movements \in {None, MaxCap} :
           /\ game = MillGame(turn, max_movements, 3)
           /\ agent = QAgentOf(QTable, 0, turn)
    /\ lastOp = "new"

\* The games are followed up to MaxCap movements.
QFollowed == game.mode # "FINISHED" /\ game.movements_made < MaxCap

\* One pass of the loop of Trainer._run_episode, the RandomAgent choosing
\* (gamma = 0), with lr = df = 1/2.
RunEpisodeStep ==
    /\ QFollowed
    /\ agent.updates < MaxUpdates
    /\ \E ks \in ShufflesTried \cup {<<0, 0, 0>>} :
           LET state == State(<<game>>, 1, NoMove)
               ch == RandomAgent_next_state(<<game>>, 1, ks)
               next_state == ch.state
               reward == Float(default_reward_fn(ch.heap, next_state, agent.initial_turn), 1)
               found == max_reward(agent.q_table, ch.heap, next_state)
               max == IF found.result = NoReward THEN Zero ELSE found.result
           IN  /\ ch.raised = "none"
               /\ agent' = QAgentOf(
                      apply_reward(found.table, ch.heap, state, next_state.move,
                                   reward, max, Half, Half, Zero),
                      agent.updates + 1, agent.initial_turn)
               /\ game' = ch.heap[next_state.game]
               /\ lastOp' = "_run_episode"

\* The moves of the direct calls: the first successor move of the state
\* and a move that is not legal.
QMoves(g) ==
    LET all == consume(<<g>>, successors(State(<<g>>, 1, NoMove), FALSE),
                       <<0, 0, 0>>, 1, <<>>)
    IN  {all.states[i].move : i \in 1..Len(all.states)} \cup {StrayMove}

\* q_table.apply_reward(state, move, reward, max_reward=0, lr=1/2, df=1/2):
\* the direct calls that fill the table.
ApplyReward ==
    /\ agent.updates < MaxUpdates
    /\ \E m \in QMoves(game) : \E reward \in Rewards :
           agent' = QAgentOf(
               apply_reward(agent.q_table, <<game>>, State(<<game>>, 1, NoMove),
                            m, reward, Zero, Half, Half, Zero),
               agent.updates + 1, agent.initial_turn)
    /\ lastOp' = "apply_reward"
    /\ UNCHANGED game

\* A read of the table for the current state: get_reward of one of the
\* moves, best_move or max_reward.
ReadTable ==
    /\ lastOp # "read"
    /\ LET state == State(<<game>>, 1, NoMove)
       IN  \E left \in {get_reward(agent.q_table, <<game>>, state, m).table
                             : m \in QMoves(game)}
                           \cup {best_move(agent.q_table, <<game>>, state).table,
                                 max_reward(agent.q_table, <<game>>, state).table} :
               agent' = [agent EXCEPT !.q_table = left]
    /\ lastOp' = "read"
    /\ UNCHANGED game

\* QAgent.perform_move, the alternative agent a RandomAgent.
QAgentPerformMove ==
    /\ QFollowed
    /\ \E ks \in ShufflesTried \cup {<<0, 0, 0>>} :
       \E ch \in QAgent_next_state(
                     <<game>>, 1,
                     best_move(agent.q_table, <<game>>, State(<<game>>, 1, NoMove)).result,
                     {RandomAgent_next_state(<<game>>, 1, ks)}) :
           LET r == perform_move(1, ch)
           IN  /\ game' = r.heap[1]
               /\ lastOp' = IF r.raised # "none" THEN r.raised ELSE "perform_move"
    /\ UNCHANGED agent

QNext ==
    \/ RunEpisodeStep
    \/ ApplyReward
    \/ ReadTable
    \/ QAgentPerformMove

QSpec == QInit /\ [][QNext]_vars

(***************************************************************************)
(* KeySpec: the State objects of one episode and their QTable keys.  game  *)
(* is the game of the latest State, reached through the successors of the  *)
(* States before it; agent holds the first State of the episode (with the  *)
(* heap it lives in) and the Move of the latest State.  The first State    *)
(* may have had its successors enumerated in shuffled order, which         *)
(* permutes its lists.                                                     *)
(***************************************************************************)
KeptState(heap, st, last) ==
    [searching |-> FALSE, kept |-> [heap |-> heap, st |-> st], last |-> last]

\* The episode starts after an opening; the first State is kept.
KeyInit ==
    /\ \E turn \in {WHITE, BLACK} : \E cells \in {CrampedCells} :
           game = play_opening(
                      place_all(MillGame(turn, None, NUM_PIECES_PER_PLAYER), cells),
                      <<0, 0, 0>>)
    /\ agent = KeptState(<<game>>, State(<<game>>, 1, NoMove), NoMove)
    /\ lastOp = "new"

\* state = next_state: the agent's choice is any of the successors.  The
\* episode is followed for MaxPlies movements.
KeyNextState ==
    /\ game.mode # "FINISHED"
    /\ game.movements_made < 2 * NUM_PIECES_PER_PLAYER + MaxPlies
    /\ LET all == consume(<<game>>, successors(State(<<game>>, 1, agent.last), FALSE),
                          <<0, 0, 0>>, -1, <<>>)
       IN  \E i \in 1..Len(all.states) :
               /\ game' = all.heap[all.states[i].game]
               /\ agent' = [agent EXCEPT !.last = all.states[i].move]
    /\ lastOp' = "next_state"

\* for s in kept.successors(shuffle=True): the first next() shuffles the
\* kept State's lists.
KeyShuffle ==
    /\ agent.kept.st.free_pieces = agent.kept.st.game_info.free_pieces
    /\ \E ks \in ShufflesTried :
           agent' = [agent EXCEPT !.kept.st = shuffle_indices(@, ks)]
    /\ lastOp' = "shuffle"
    /\ UNCHANGED game

KeyNext ==
    \/ KeyNextState
    \/ KeyShuffle

KeySpec == KeyInit /\ [][KeyNext]_vars

(***************************************************************************)
(* CodecSpec: a Move is packed by to_compressed and the integer unpacked   *)
(* by from_compressed.  agent holds the Move, its packed form (None before *)
(* the call) and the Move unpacked from it.                                *)
(***************************************************************************)
\* The Moves whose next_pos is a cell and whose pos_init and kill are each
\* a cell or None.
AllMoves ==
    LET cells == {BoardPositions[i] : i \in 1..BOARD_SIZE}
    IN  {MoveTag(next_pos, pos_init, kill) :
            next_pos \in cells, pos_init \in cells \cup {NoPos},
            kill \in cells \cup {NoPos}}

Packing(m, compressed, unpacked) ==
    [searching |-> FALSE, move |-> m, compressed |-> compressed,
     unpacked |-> unpacked]

CodecInit ==
    /\ game = MillGame(WHITE, None, NUM_PIECES_PER_PLAYER)
    /\ \E m \in AllMoves : agent = Packing(m, None, NoMove)
    /\ lastOp = "new"

\* compressed = move.to_compressed()
ToCompressed ==
    /\ agent.compressed = None
    /\ agent' = [agent EXCEPT !.compressed = to_compressed(agent.move)]
    /\ lastOp' = "to_compressed"
    /\ UNCHANGED game

\* Move.from_compressed(compressed)
FromCompressed ==
    /\ lastOp = "to_compressed"
    /\ agent' = [agent EXCEPT !.unpacked = from_compressed(agent.compressed)]
    /\ lastOp' = "from_compressed"
    /\ UNCHANGED game

CodecNext ==
    \/ ToCompressed
    \/ FromCompressed

CodecSpec == CodecInit /\ [][CodecNext]_vars

(***************************************************************************)
(* BoardSpec: a Board filled by put_cell and emptied by remove, with up to *)
(* MaxMarks marks on it.  game.board is the Board's buff.                  *)
(***************************************************************************)
MaxMarks == 3

Marks(buff) == Cardinality({i \in DOMAIN buff : buff[i] # "EMPTY"})

BoardInit ==
    /\ game = MillGame(WHITE, None, NUM_PIECES_PER_PLAYER)
    /\ agent = NoSearch
    /\ lastOp = "new"

\* board.put_cell(ring, cell, state): the cell is overridden.
PutCell ==
    /\ \E pos \in ALL_BOARD_POSITIONS : \E state \in {"WHITE", "BLACK"} :
           /\ Marks(game.board) < MaxMarks \/ get_cell(game.board, pos[1], pos[2]) # "EMPTY"
           /\ game' = [game EXCEPT !.board = put_cell(@, pos[1], pos[2], state)]
    /\ lastOp' = "put_cell"
    /\ UNCHANGED agent

\* board.remove(ring, cell)
BoardRemove ==
    /\ \E pos \in ALL_BOARD_POSITIONS :
           /\ get_cell(game.board, pos[1], pos[2]) # "EMPTY"
           /\ game' = [game EXCEPT !.board = board_remove(@, pos[1], pos[2])]
    /\ lastOp' = "remove"
    /\ UNCHANGED agent

BoardNext ==
    \/ PutCell
    \/ BoardRemove

BoardSpec == BoardInit /\ [][BoardNext]_vars

(***************************************************************************)
(* Vocabulary of the properties.                                           *)
(***************************************************************************)
Mark(t) == IF t = WHITE THEN "WHITE" ELSE "BLACK"

At(g, p) == g.board[p[1] * CELLS_PER_RING + p[2]]

Remaining(g, t) == g.players[t].remaining_pieces

Alive(g, t) == g.players[t].alive_pieces

OnBoard(g, t) == {p \in ALL_BOARD_POSITIONS : At(g, p) = Mark(t)}

InMill(g, p) == is_mill(g.board, p[1], p[2])

\* The game in the middle of a successful place(p): piece on the board, one
\* piece fewer to place, one movement more, MOVE once nobody has pieces left.
Placed(g, p) ==
    LET me == g.turn
        left == [t \in {WHITE, BLACK} |->
                    IF t = me THEN Remaining(g, t) - 1 ELSE Remaining(g, t)]
    IN  [g EXCEPT !.board[p[1] * CELLS_PER_RING + p[2]] = Mark(me),
                  !.players[me].remaining_pieces = left[me],
                  !.movements_made = g.movements_made + 1,
                  !.mode = IF left[WHITE] = 0 /\ left[BLACK] = 0
                           THEN "MOVE" ELSE g.mode]

\* The game in the middle of a successful move(s, d).
Moved(g, s, d) ==
    [g EXCEPT !.board[s[1] * CELLS_PER_RING + s[2]] = "EMPTY",
              !.board[d[1] * CELLS_PER_RING + d[2]] = Mark(g.turn),
              !.movements_made = g.movements_made + 1]

\* After the piece is on the board: a mill asks for a removal and keeps the
\* turn, anything else goes through the turn-advance rule.
MillOrTurn(mid, p) ==
    IF InMill(mid, p) THEN [mid EXCEPT !.has_to_delete = TRUE]
    ELSE change_turn(mid)

(***************************************************************************)
(* C1: place(ring, cell) succeeds iff the mode is PLACE, no removal is     *)
(* pending and the cell is empty; otherwise it raises                      *)
(* InvalidStateException (phase or pending removal) or                     *)
(* InvalidMoveException (occupied cell).  On success the cell holds the    *)
(* current player's mark, that player has one piece fewer to place,        *)
(* movements_made is one more, the mode is MOVE iff nobody has pieces left *)
(* to place, and then either the piece is in a mill, has_to_delete is set  *)
(* and the turn stays, or the turn-advance rule is applied.                *)
(***************************************************************************)
C1_PlaceContract ==
    \A p \in InputCells :
        LET o == place(game, p[1], p[2])
            phaseOk == game.mode = "PLACE" /\ ~game.has_to_delete
            legal == phaseOk /\ At(game, p) = "EMPTY"
        IN  /\ (o.err = "none") <=> legal
            /\ ~phaseOk => o.err = "InvalidStateException"
            /\ (phaseOk /\ ~legal) => o.err = "InvalidMoveException"
            /\ legal => o.g = MillOrTurn(Placed(game, p), p)

\* The last piece of the placing phase was placed and closed a mill.
C1_Witness ==
    /\ lastOp = "place"
    /\ game.has_to_delete
    /\ game.mode = "MOVE"
    /\ Remaining(game, WHITE) = 0 /\ Remaining(game, BLACK) = 0

(***************************************************************************)
(* C2: move(src, dst) succeeds iff the mode is MOVE, no removal is         *)
(* pending, src and dst are adjacent, src holds the current player's piece *)
(* and dst is empty; otherwise InvalidStateException (phase or pending     *)
(* removal) or InvalidMoveException (any cell-level violation).  On        *)
(* success src is empty, dst holds the mover's mark, no piece counter      *)
(* changes, movements_made is one more, and then either the piece is in a  *)
(* mill, has_to_delete is set and the turn stays, or the turn-advance rule *)
(* is applied.                                                             *)
(***************************************************************************)
C2_MoveContract ==
    \A s \in InputCells : \A d \in InputCells :
        LET o == move(game, s[1], s[2], d[1], d[2])
            phaseOk == game.mode = "MOVE" /\ ~game.has_to_delete
            legal == /\ phaseOk
                     /\ are_adjacent(s[1], s[2], d[1], d[2])
                     /\ At(game, s) = Mark(game.turn)
                     /\ At(game, d) = "EMPTY"
        IN  /\ (o.err = "none") <=> legal
            /\ ~phaseOk => o.err = "InvalidStateException"
            /\ (phaseOk /\ ~legal) => o.err = "InvalidMoveException"
            /\ legal => /\ o.g = MillOrTurn(Moved(game, s, d), d)
                        /\ o.g.players = game.players

\* A piece was moved into a mill.
C2_Witness ==
    /\ lastOp = "move"
    /\ game.has_to_delete
    /\ game.mode = "MOVE"

(***************************************************************************)
(* C3: mill protection.  While a removal is pending, removing an opponent  *)
(* piece that is in a mill raises InvalidMoveException whenever some       *)
(* opponent piece on the board is in no mill, and succeeds when every      *)
(* opponent piece on the board is in a mill; removing an opponent piece    *)
(* that is in no mill succeeds; removing an empty cell or an own piece     *)
(* raises InvalidMoveException.                                            *)
(***************************************************************************)
C3_MillProtection ==
    game.has_to_delete =>
        \A p \in InputCells :
            LET o == remove(game, p[1], p[2])
                opp == 1 - game.turn
                allMilled == \A q \in OnBoard(game, opp) : InMill(game, q)
            IN  /\ At(game, p) # Mark(opp) => o.err = "InvalidMoveException"
                /\ (At(game, p) = Mark(opp) /\ InMill(game, p) /\ ~allMilled)
                       => o.err = "InvalidMoveException"
                /\ (At(game, p) = Mark(opp) /\ InMill(game, p) /\ allMilled)
                       => o.err = "none"
                /\ (At(game, p) = Mark(opp) /\ ~InMill(game, p)) => o.err = "none"

\* A removal is pending while the opponent has a mill and a piece outside it.
C3_Witness ==
    /\ game.has_to_delete
    /\ \E p \in InputCells : \E q \in InputCells :
           /\ At(game, p) = Mark(1 - game.turn) /\ InMill(game, p)
           /\ At(game, q) = Mark(1 - game.turn) /\ ~InMill(game, q)
           /\ remove(game, p[1], p[2]).err = "InvalidMoveException"
           /\ remove(game, q[1], q[2]).err = "none"

\* A removal is pending while all the opponent's pieces are in a mill.
C3_AllMilledReached ==
    /\ game.has_to_delete
    /\ OnBoard(game, 1 - game.turn) # {}
    /\ \A q \in OnBoard(game, 1 - game.turn) : InMill(game, q)

(***************************************************************************)
(* C4: a successful remove(ring, cell) empties the cell, takes exactly one *)
(* from the opponent's alive_pieces and clears has_to_delete; if the       *)
(* opponent then has at most 2 alive pieces the mode is FINISHED, the turn *)
(* stays with the remover, and the remover is the winner; otherwise the    *)
(* turn-advance rule is applied.                                           *)
(***************************************************************************)
Removed(g, p) ==
    [g EXCEPT !.board[p[1] * CELLS_PER_RING + p[2]] = "EMPTY",
              !.players[1 - g.turn].alive_pieces = Alive(g, 1 - g.turn) - 1,
              !.has_to_delete = FALSE]

C4_RemoveEffect ==
    \A p \in InputCells :
        LET o == remove(game, p[1], p[2])
            mid == Removed(game, p)
        IN  o.err = "none" =>
                IF Alive(mid, 1 - game.turn) <= 2
                THEN /\ o.g = [mid EXCEPT !.mode = "FINISHED"]
                     /\ winner(o.g) = [raised |-> "none", value |-> game.turn]
                ELSE o.g = change_turn(mid)

\* The same without the statement about the winner.
C4_RemoveEffectBoard ==
    \A p \in InputCells :
        LET o == remove(game, p[1], p[2])
            mid == Removed(game, p)
        IN  o.err = "none" =>
                IF Alive(mid, 1 - game.turn) <= 2
                THEN o.g = [mid EXCEPT !.mode = "FINISHED"]
                ELSE o.g = change_turn(mid)

C4_EliminationReached ==
    /\ lastOp = "remove"
    /\ game.mode = "FINISHED"
    /\ Alive(game, 1 - game.turn) = 2

(***************************************************************************)
(* C5: a pending removal gates every other call.  While has_to_delete is   *)
(* set, place, move, place_and_remove and move_and_remove raise            *)
(* InvalidStateException whatever their arguments; while it is clear,      *)
(* remove raises InvalidStateException; and the turn does not change from  *)
(* the step that sets has_to_delete until the step that clears it.         *)
(***************************************************************************)
C5_Gate ==
    /\ game.has_to_delete =>
           /\ \A p \in InputCells :
                  place(game, p[1], p[2]).err = "InvalidStateException"
           /\ \A s \in InputCells : \A d \in InputCells :
                  move(game, s[1], s[2], d[1], d[2]).err = "InvalidStateException"
           /\ \A p \in InputCells : \A r \in InputCells :
                  place_and_remove(game, p[1], p[2], r[1], r[2]).err
                      = "InvalidStateException"
           /\ \A s \in InputCells : \A d \in InputCells : \A r \in InputCells :
                  move_and_remove(game, s[1], s[2], d[1], d[2], r[1], r[2]).err
                      = "InvalidStateException"
    /\ ~game.has_to_delete =>
           \A p \in InputCells :
               remove(game, p[1], p[2]).err = "InvalidStateException"

C5_PendingRemovalGates ==
    /\ []C5_Gate
    /\ [][game'.has_to_delete => game'.turn = game.turn]_vars

\* A removal is pending in the moving phase and the player to move has a
\* piece next to an empty cell: the move is refused for the pending removal.
C5_Witness ==
    /\ game.has_to_delete
    /\ game.mode = "MOVE"
    /\ \E s \in InputCells : \E d \in InputCells :
           /\ are_adjacent(s[1], s[2], d[1], d[2])
           /\ At(game, s) = Mark(game.turn)
           /\ At(game, d) = "EMPTY"
           /\ move(game, s[1], s[2], d[1], d[2]).err = "InvalidStateException"

(***************************************************************************)
(* C6: over any sequence of calls the mode changes only from PLACE to MOVE *)
(* (at the step where both players' remaining_pieces reach 0), from PLACE  *)
(* to FINISHED or from MOVE to FINISHED; it never returns to PLACE, and    *)
(* FINISHED is absorbing: every call fails there.                          *)
(***************************************************************************)
NothingToPlace(g) == Remaining(g, WHITE) = 0 /\ Remaining(g, BLACK) = 0

EveryCallFails(g) ==
    /\ \A p \in InputCells : place(g, p[1], p[2]).err # "none"
    /\ \A p \in InputCells : remove(g, p[1], p[2]).err # "none"
    /\ \A s \in InputCells : \A d \in InputCells :
           move(g, s[1], s[2], d[1], d[2]).err # "none"
    /\ \A p \in InputCells : \A r \in InputCells :
           place_and_remove(g, p[1], p[2], r[1], r[2]).err # "none"
    /\ \A s \in InputCells : \A d \in InputCells : \A r \in InputCells :
           move_and_remove(g, s[1], s[2], d[1], d[2], r[1], r[2]).err # "none"

C6_ModeTransitions ==
    /\ [][game'.mode # game.mode =>
            \/ /\ game.mode = "PLACE" /\ game'.mode = "MOVE"
               /\ NothingToPlace(game') /\ ~NothingToPlace(game)
            \/ /\ game.mode \in {"PLACE", "MOVE"} /\ game'.mode = "FINISHED"]_vars
    /\ [](game.mode = "FINISHED" => EveryCallFails(game))

\* A game that went through PLACE and MOVE and was finished by a move.
C6_Witness ==
    /\ game.mode = "FINISHED"
    /\ lastOp = "move"
    /\ NothingToPlace(game)

(***************************************************************************)
(* C7: a successful place_and_remove(p, r) leaves the game that place(p)   *)
(* followed by remove(r) leaves, and a successful move_and_remove(s, d, r) *)
(* the game that move(s, d) followed by remove(r) leaves.                  *)
(***************************************************************************)
C7_CompositeEqualsSequence ==
    /\ \A p \in InputCells : \A r \in InputCells :
           LET o == place_and_remove(game, p[1], p[2], r[1], r[2])
               first == place(game, p[1], p[2])
           IN  o.err = "none" => o.g = remove(first.g, r[1], r[2]).g
    /\ \A s \in InputCells : \A d \in InputCells : \A r \in InputCells :
           LET o == move_and_remove(game, s[1], s[2], d[1], d[2], r[1], r[2])
               first == move(game, s[1], s[2], d[1], d[2])
           IN  o.err = "none" => o.g = remove(first.g, r[1], r[2]).g

(***************************************************************************)
(* C8: place_and_remove and move_and_remove are all-or-nothing.  Whenever  *)
(* the call raises, the game is as it was before the call; when the first  *)
(* step is legal and closes a mill and the removal is refused, the error   *)
(* is the one remove raises after that first step; when the first step is  *)
(* legal and closes no mill, the error is InvalidMoveException.            *)
(***************************************************************************)
C8_AllOrNothing ==
    /\ \A p \in InputCells :
           LET first == place(game, p[1], p[2])
           IN  \A r \in InputCells :
               LET o == place_and_remove(game, p[1], p[2], r[1], r[2])
               IN  o.err # "none" =>
                   /\ o.g = game
                   /\ first.err # "none" => o.err = first.err
                   /\ (first.err = "none" /\ first.g.has_to_delete)
                          => o.err = remove(first.g, r[1], r[2]).err
                   /\ (first.err = "none" /\ ~first.g.has_to_delete)
                          => o.err = "InvalidMoveException"
    /\ \A s \in InputCells : \A d \in InputCells :
           LET first == move(game, s[1], s[2], d[1], d[2])
           IN  \A r \in InputCells :
               LET o == move_and_remove(game, s[1], s[2], d[1], d[2], r[1], r[2])
               IN  o.err # "none" =>
                   /\ o.g = game
                   /\ first.err # "none" => o.err = first.err
                   /\ (first.err = "none" /\ first.g.has_to_delete)
                          => o.err = remove(first.g, r[1], r[2]).err
                   /\ (first.err = "none" /\ ~first.g.has_to_delete)
                          => o.err = "InvalidMoveException"

\* A placement that closes a mill is combined with the removal of a protected
\* opponent piece: the composite call is refused after its first step.
C8_Witness ==
    /\ game.mode = "PLACE"
    /\ \E p \in InputCells : \E r \in InputCells :
           LET first == place(game, p[1], p[2])
           IN  /\ first.err = "none"
               /\ first.g.has_to_delete
               /\ At(game, r) = Mark(1 - game.turn)
               /\ place_and_remove(game, p[1], p[2], r[1], r[2]).err
                      = "InvalidMoveException"

\* A legal move that closes no mill is given to move_and_remove and undone.
C8_MoveUndoneReached ==
    /\ game.mode = "MOVE"
    /\ \E s \in InputCells : \E d \in InputCells : \E r \in InputCells :
           LET first == move(game, s[1], s[2], d[1], d[2])
           IN  /\ first.err = "none"
               /\ ~first.g.has_to_delete
               /\ move_and_remove(game, s[1], s[2], d[1], d[2], r[1], r[2]).err
                      = "InvalidMoveException"

(***************************************************************************)
(* C9: immobility rule.  Whenever the turn is about to pass in MOVE mode   *)
(* (after a place or move that closes no mill, or after a removal that     *)
(* leaves the opponent at least 3 pieces) and the move cap is not reached, *)
(* the game is FINISHED with the turn on the acting player iff no opponent *)
(* piece has an empty adjacent cell, adjacency being are_adjacent;         *)
(* otherwise the turn passes to the opponent.  In PLACE mode the turn      *)
(* passes whatever the board.                                              *)
(***************************************************************************)
Immobile(g, t) ==
    \A p \in OnBoard(g, t) :
        ~\E q \in ALL_BOARD_POSITIONS :
            are_adjacent(p[1], p[2], q[1], q[2]) /\ At(g, q) = "EMPTY"

CapReached(g) == g.max_movements # None /\ g.movements_made = g.max_movements

TurnPasses(mid, after) ==
    ~CapReached(mid) =>
        IF mid.mode = "MOVE" /\ Immobile(mid, 1 - mid.turn)
        THEN after = [mid EXCEPT !.mode = "FINISHED"]
        ELSE after = [mid EXCEPT !.turn = 1 - mid.turn]

C9_ImmobilityRule ==
    /\ \A p \in InputCells :
           LET o == place(game, p[1], p[2])
               mid == Placed(game, p)
           IN  (o.err = "none" /\ ~InMill(mid, p)) => TurnPasses(mid, o.g)
    /\ \A s \in InputCells : \A d \in InputCells :
           LET o == move(game, s[1], s[2], d[1], d[2])
               mid == Moved(game, s, d)
           IN  (o.err = "none" /\ ~InMill(mid, d)) => TurnPasses(mid, o.g)
    /\ \A p \in InputCells :
           LET o == remove(game, p[1], p[2])
               mid == Removed(game, p)
           IN  (o.err = "none" /\ Alive(mid, 1 - mid.turn) >= 3)
                   => TurnPasses(mid, o.g)

(***************************************************************************)
(* C10: with a move cap N the game never makes more than N movements; once *)
(* N movements are made and no removal is pending, the game is FINISHED,   *)
(* and with no player eliminated its winner is None; while the removal of  *)
(* the N-th movement is pending the game is not finished; a game is tied   *)
(* only with N movements made; a removal is not counted as a movement.     *)
(***************************************************************************)
NobodyEliminated(g) == Alive(g, WHITE) >= 3 /\ Alive(g, BLACK) >= 3

C10_Cap ==
    game.max_movements # None =>
        /\ game.movements_made <= game.max_movements
        /\ (game.movements_made = game.max_movements /\ ~game.has_to_delete)
               => /\ game.mode = "FINISHED"
                  /\ NobodyEliminated(game)
                         => winner(game) = [raised |-> "none", value |-> None]
        /\ (game.movements_made = game.max_movements /\ game.has_to_delete)
               => game.mode # "FINISHED"
        /\ (game.mode = "FINISHED" /\ winner(game).value = None)
               => game.movements_made = game.max_movements

C10_MoveCapTie ==
    /\ []C10_Cap
    /\ [][lastOp' = "remove" => game'.movements_made = game.movements_made]_vars

\* The cap was reached by a move while the opponent could not move either:
\* the game is tied.
C10_Witness ==
    /\ game.max_movements = MaxMoves
    /\ game.movements_made = game.max_movements
    /\ game.mode = "FINISHED"
    /\ lastOp = "move"
    /\ NobodyEliminated(game)
    /\ ~can_move_to_an_adjacent_cell(game, other_player(game))
    /\ winner(game).value = None

\* The cap was reached by a move that closed a mill; the tie came with the
\* removal.
C10_TieAfterRemovalReached ==
    /\ game.max_movements = MaxMoves
    /\ game.movements_made = game.max_movements
    /\ game.mode = "FINISHED"
    /\ lastOp = "remove"
    /\ NobodyEliminated(game)

\* The cap was reached while placing.
C10_TieWhilePlacingReached ==
    /\ game.max_movements = MaxCap
    /\ game.mode = "FINISHED"
    /\ lastOp = "place"

(***************************************************************************)
(* C11: winner raises MillGameException in every state that is not         *)
(* FINISHED; in a state FINISHED by place, move or remove it is None       *)
(* exactly when the move cap is reached and nobody is eliminated, and      *)
(* otherwise the player who made the finishing call.                       *)
(***************************************************************************)
FinishedBy(g, after, actor) ==
    winner(after) =
        [raised |-> "none",
         value |-> IF CapReached(after) /\ NobodyEliminated(after)
                   THEN None ELSE actor]

C11_Winner ==
    /\ [](game.mode # "FINISHED" => winner(game).raised = "MillGameException")
    /\ [][(/\ game.mode # "FINISHED" /\ game'.mode = "FINISHED"
           /\ lastOp' \in {"place", "move", "remove"})
              => FinishedBy(game, game', game.turn)]_vars

\* The same for the games that are not finished by an elimination on the
\* movement that reaches the cap.
C11_WinnerBarCapElimination ==
    /\ [](game.mode # "FINISHED" => winner(game).raised = "MillGameException")
    /\ [][(/\ game.mode # "FINISHED" /\ game'.mode = "FINISHED"
           /\ lastOp' \in {"place", "move", "remove"}
           /\ ~(CapReached(game') /\ ~NobodyEliminated(game')))
              => FinishedBy(game, game', game.turn)]_vars

(***************************************************************************)
(* C12: check-then-act.  A place, move or remove call that raises leaves   *)
(* the game as it was, and a call made in the wrong phase or against the   *)
(* pending-removal flag raises InvalidStateException whatever its cells,   *)
(* also when the cells are illegal themselves.                             *)
(***************************************************************************)
C12_CheckThenAct ==
    /\ \A p \in InputCells :
           LET o == place(game, p[1], p[2])
           IN  /\ o.err # "none" => o.g = game
               /\ ~(game.mode = "PLACE" /\ ~game.has_to_delete)
                      => o.err = "InvalidStateException"
    /\ \A s \in InputCells : \A d \in InputCells :
           LET o == move(game, s[1], s[2], d[1], d[2])
           IN  /\ o.err # "none" => o.g = game
               /\ ~(game.mode = "MOVE" /\ ~game.has_to_delete)
                      => o.err = "InvalidStateException"
    /\ \A p \in InputCells :
           LET o == remove(game, p[1], p[2])
           IN  /\ o.err # "none" => o.g = game
               /\ ~game.has_to_delete => o.err = "InvalidStateException"

\* A removal is pending in the moving phase and a caller asks to move an
\* opponent piece onto an occupied cell that is not adjacent: the call is
\* illegal three times over at the cell level and is refused for the phase.
C12_Witness ==
    /\ game.has_to_delete
    /\ game.mode = "MOVE"
    /\ \E s \in InputCells : \E d \in InputCells :
           /\ ~are_adjacent(s[1], s[2], d[1], d[2])
           /\ At(game, s) = Mark(1 - game.turn)
           /\ At(game, d) # "EMPTY"
           /\ move(game, s[1], s[2], d[1], d[2])
                  = Outcome(game, "InvalidStateException")

(***************************************************************************)
(* Vocabulary of the successor generator's properties: the legal composite *)
(* actions of a game, stated over the board.                               *)
(***************************************************************************)
EmptyCells(g) == {p \in ALL_BOARD_POSITIONS : At(g, p) = "EMPTY"}

\* The first steps: <<NoPos, cell>> places, <<from, to>> moves.
FirstSteps(g) ==
    IF g.has_to_delete THEN {}
    ELSE IF g.mode = "PLACE" THEN {<<NoPos, p>> : p \in EmptyCells(g)}
    ELSE IF g.mode = "MOVE"
         THEN {sd \in OnBoard(g, g.turn) \X EmptyCells(g) :
                   are_adjacent(sd[1][1], sd[1][2], sd[2][1], sd[2][2])}
    ELSE {}

AfterFirstStep(g, f) == IF f[1] = NoPos THEN Placed(g, f[2]) ELSE Moved(g, f[1], f[2])

\* The opponent cells the mill-protection rule lets the mover take.
Removable(mid) ==
    LET opp == 1 - mid.turn
    IN  {k \in OnBoard(mid, opp) :
            ~InMill(mid, k) \/ \A q \in OnBoard(mid, opp) : InMill(mid, q)}

LegalActions(g) ==
    UNION {LET mid == AfterFirstStep(g, f)
           IN  IF InMill(mid, f[2])
               THEN {MoveTag(f[2], f[1], k) : k \in Removable(mid)}
               ELSE {MoveTag(f[2], f[1], NoPos)}
           : f \in FirstSteps(g)}

\* The game after place or move, then remove, of the action m.
ActionResult(g, m) ==
    LET a == IF m.pos_init = NoPos
             THEN place(g, m.next_pos[1], m.next_pos[2])
             ELSE move(g, m.pos_init[1], m.pos_init[2], m.next_pos[1], m.next_pos[2])
    IN  IF m.kill = NoPos THEN a
        ELSE IF a.err # "none" THEN a
        ELSE remove(a.g, m.kill[1], m.kill[2])

\* list(State(game).successors()) on a heap that holds the caller's game only.
AllSuccessors(g) ==
    consume(<<g>>, successors(State(<<g>>, 1, NoMove), FALSE), <<0, 0, 0>>, -1, <<>>)

(***************************************************************************)
(* C13: for a game with no pending removal, successors() yields exactly    *)
(* one State per legal composite action and nothing else; each yielded     *)
(* State's game is the origin game after place or move (then remove) of    *)
(* that action, its Move names that action (pos_init absent for a          *)
(* placement, kill absent when no mill is formed), and no action is        *)
(* yielded twice.                                                          *)
(***************************************************************************)
C13_Successors ==
    ~game.has_to_delete =>
        LET all == AllSuccessors(game)
            S == all.states
        IN  /\ {S[i].move : i \in 1..Len(S)} = LegalActions(game)
            /\ Len(S) = Cardinality(LegalActions(game))
            /\ \A i \in 1..Len(S) :
                   ActionResult(game, S[i].move) = Outcome(all.heap[S[i].game], "none")

\* While placing, a placement closes a mill and the opponent has a mill of
\* its own and a piece outside it: some removals are yielded, one is not.
C13_Witness ==
    /\ game.mode = "PLACE"
    /\ \E f \in FirstSteps(game) :
           LET mid == AfterFirstStep(game, f)
           IN  /\ InMill(mid, f[2])
               /\ Removable(mid) # {}
               /\ Removable(mid) # OnBoard(mid, 1 - mid.turn)

\* In the moving phase a move closes a mill.
C13_MovingMillReached ==
    /\ game.mode = "MOVE"
    /\ \E f \in FirstSteps(game) :
           LET mid == AfterFirstStep(game, f)
           IN  InMill(mid, f[2]) /\ Removable(mid) # {}

\* The first State of the canonical enumeration.
FirstSuccessor(g) ==
    next(<<g>>, successors(State(<<g>>, 1, NoMove), FALSE), <<0, 0, 0>>).state

(***************************************************************************)
(* C14: successors() yields nothing for a FINISHED game and at least one   *)
(* State for every game that is not FINISHED, has no pending removal and   *)
(* is reached from a new game by place, move and remove: the player to     *)
(* move has a legal action, and next() in RandomAgent._next_state never    *)
(* raises StopIteration.                                                   *)
(***************************************************************************)
C14_NeverStuck ==
    /\ game.mode = "FINISHED" => FirstSuccessor(game) = NoState
    /\ (game.mode # "FINISHED" /\ ~game.has_to_delete) =>
           /\ FirstSuccessor(game) # NoState
           /\ \A ks \in ShufflesTried \cup {<<0, 0, 0>>} :
                  LET ch == RandomAgent_next_state(<<game>>, 1, ks)
                  IN  ch.raised = "none" /\ ch.state # NoState

\* In the moving phase the player to move has a single legal action left.
C14_Witness ==
    /\ game.mode = "MOVE"
    /\ lastOp = "perform_move"
    /\ Cardinality(LegalActions(game)) = 1
    /\ Len(AllSuccessors(game).states) = 1

\* A game finished because the opponent cannot move: nothing is yielded.
C14_ImmobileReached ==
    /\ game.mode = "FINISHED"
    /\ ~CapReached(game)
    /\ NobodyEliminated(game)
    /\ Len(AllSuccessors(game).states) = 0

(***************************************************************************)
(* C15: enumerating successors never changes the origin.  After any prefix *)
(* of State.successors() is consumed, in canonical or in shuffled order,   *)
(* the origin game object holds what it held before, also when candidates  *)
(* were rejected; every yielded State has a game object of its own (not    *)
(* the origin, not another successor's), and what the generator does after *)
(* a yield leaves the games yielded before as they were.                   *)
(***************************************************************************)
\* How many states a caller takes from a generator before it stops.
MaxPrefix == 2

\* successors() and successors(shuffle=True) with the shuffle its first
\* next() draws.
Enumerations(g) ==
    {<<successors(State(<<g>>, 1, NoMove), FALSE), <<0, 0, 0>>>>}
        \cup {<<successors(State(<<g>>, 1, NoMove), TRUE), ks>> : ks \in ShufflesTried}

OwnGames(run) ==
    \A i \in 1..Len(run.states) :
        /\ run.states[i].game # 1
        /\ \A j \in 1..Len(run.states) :
               i # j => run.states[i].game # run.states[j].game

C15_OriginUntouched ==
    \A e \in Enumerations(game) :
        LET all == consume(<<game>>, e[1], e[2], -1, <<>>)
        IN  /\ all.heap[1] = game
            /\ OwnGames(all)
            /\ \A n \in 0..MaxPrefix :
                   LET pre == consume(<<game>>, e[1], e[2], n, <<>>)
                   IN  /\ pre.heap[1] = game
                       /\ \A i \in 1..Len(pre.states) :
                              /\ pre.states[i] = all.states[i]
                              /\ pre.heap[pre.states[i].game]
                                     = all.heap[pre.states[i].game]

\* A game whose enumeration rejects candidates (a protected piece cannot be
\* taken) and yields more states than any prefix followed.
C15_Witness ==
    /\ game.mode = "PLACE"
    /\ ~game.has_to_delete
    /\ \E f \in FirstSteps(game) :
           LET mid == AfterFirstStep(game, f)
           IN  InMill(mid, f[2]) /\ Removable(mid) # OnBoard(mid, 1 - mid.turn)
    /\ LET all == AllSuccessors(game)
       IN  /\ Len(all.states) > MaxPrefix
           /\ Len(all.heap) > Len(all.states) + 1

(***************************************************************************)
(* What every agent can answer on the caller's game, object 1 of a heap    *)
(* that holds nothing else.                                                *)
(***************************************************************************)
\* The moves a QTable's best_move is given to return: None, the moves to
\* the successors and a placement on the first cell whatever the game.
BestMoves(g) ==
    LET all == AllSuccessors(g).states
    IN  {NoMove, MoveTag(<<0, 0>>, NoPos, NoPos)} \cup {all[i].move : i \in 1..Len(all)}

RandomAnswers(g) ==
    {RandomAgent_next_state(<<g>>, 1, ks) : ks \in ShufflesTried \cup {<<0, 0, 0>>}}

MinimaxAnswers(g) == {Minimax_next_state(<<g>>, 1, d, <<0, 0, 0>>) : d \in 0..MaxDepth}

\* The searches short enough to be followed whole inside one answer.
MCTSAnswers(g) ==
    UNION {MCTSAgent_next_state(<<g>>, 1, iterations, executor)
               : iterations \in 0..1, executor \in Executors}

HybridAnswers(g) ==
    UNION {HybridAgent_next_state(<<g>>, 1, 1, 1, 1, turn_counter)
               : turn_counter \in 0..1}

QAnswers(g) ==
    UNION {QAgent_next_state(<<g>>, 1, m, {Minimax_next_state(<<g>>, 1, 0, <<0, 0, 0>>)})
               : m \in BestMoves(g)}

\* The agents that look at the mode before they search.
GuardedAnswers(g) ==
    RandomAnswers(g) \cup MinimaxAnswers(g) \cup HybridAnswers(g) \cup QAnswers(g)

\* perform_move and next_move return None and leave the game as it was.
AnswersNone(g, answers) ==
    \A ch \in answers :
        LET p == perform_move(1, ch)
            n == next_move(ch)
        IN  /\ p.raised = "none" /\ p.move = NoMove /\ p.heap[1] = g
            /\ n.raised = "none" /\ n.move = NoMove /\ n.heap[1] = g

(***************************************************************************)
(* C16: for every agent (RandomAgent, MinimaxAgent, MCTSAgent,             *)
(* HybridAgent, QAgent), perform_move(game) and next_move(game) return     *)
(* None, without raising and without changing the game, whenever the given *)
(* game is already FINISHED.                                               *)
(***************************************************************************)
C16_FinishedGivesNone ==
    (game.mode = "FINISHED" /\ ~agent.searching) =>
        AnswersNone(game, GuardedAnswers(game) \cup MCTSAnswers(game))

\* C16 for the agents other than MCTSAgent: None, nothing raised, the game
\* as it was.
C16_GuardedAgentsGiveNone ==
    (game.mode = "FINISHED" /\ ~agent.searching) =>
        AnswersNone(game, GuardedAnswers(game))

\* C16, what MCTSAgent does instead: every search on a FINISHED game ends in
\* best_node raising ValueError, the game as it was.
C16_MCTSRaises ==
    (game.mode = "FINISHED" /\ ~agent.searching) =>
        \A ch \in MCTSAnswers(game) :
            /\ ch.raised = "ValueError"
            /\ perform_move(1, ch).raised = "ValueError"
            /\ next_move(ch).raised = "ValueError"
            /\ perform_move(1, ch).heap[1] = game

\* A search of MCTSAgent on a FINISHED game has ended with ValueError.
C16_RaisedReached ==
    game.mode = "FINISHED" /\ lastOp = "ValueError" /\ ~agent.searching

\* next_move on each answer of _next_state leaves object 1, the caller's
\* game, as it was, and a chosen state's game is another object.
AnswersLeaveGame(g, answers) ==
    \A ch \in answers :
        LET n == next_move(ch)
        IN  /\ n.heap[1] = g
            /\ n.move # NoMove => n.heap[ch.state.game] # g

(***************************************************************************)
(* C17: next_move(game) is non-mutating for every agent: after the call    *)
(* the given game's board, counters, turn, mode, has_to_delete and         *)
(* movements_made equal their values before the call, although the         *)
(* search's root State wraps the caller's game object itself rather than a *)
(* copy (minimax recursion and MCTS rollouts only ever mutate copies).     *)
(* For the agents answered within a step this is said of every answer,     *)
(* whether a move, None or an exception; for the search of MCTSAgent it is *)
(* said of every step: the root is the caller's object, the object is as   *)
(* the caller passed it while the search runs and when next_move returns.  *)
(* The answers are examined where a game first appears, after __init__ or  *)
(* perform_move; the other operations leave the game as it was.            *)
(***************************************************************************)
C17_NextMoveLeavesGame ==
    /\ []((~agent.searching /\ lastOp \in {"new", "perform_move"}) =>
            AnswersLeaveGame(game, GuardedAnswers(game) \cup MCTSAnswers(game)))
    /\ [](agent.searching =>
            /\ agent.montecarlo_tree.nodes[1].state.game = 1
            /\ agent.heap[1] = game)
    /\ [][(agent.searching /\ lastOp' = "next_move") => game' = game]_vars

\* next_move of MCTSAgent has returned a move in the moving phase after a
\* search that went below the root's children.
C17_Witness ==
    /\ lastOp = "next_move"
    /\ ~agent.searching
    /\ game.mode = "MOVE"
    /\ \E m \in BestMoves(game) : m # NoMove /\ apply_move(game, m).err = "none"

\* A search in which a rollout was played from a grandchild of the root.
C17_DeepSearchReached ==
    /\ agent.searching
    /\ game.mode = "MOVE"
    /\ agent.selected > 0
    /\ agent.montecarlo_tree.nodes[agent.selected].parent > 1

(***************************************************************************)
(* The exact value of a game: depth-bounded minimax without any pruning,   *)
(* over the legal actions of the rules.                                    *)
(***************************************************************************)
MaxOfSet(S) == CHOOSE v \in S : \A w \in S : w <= v

MinOfSet(S) == CHOOSE v \in S : \A w \in S : v <= w

RECURSIVE ExactValue(_, _, _, _)
ExactValue(g, current_turn, depth, maximizing) ==
    IF depth = 0 \/ g.mode = "FINISHED" THEN evaluate(g, current_turn)
    ELSE LET values == {ExactValue(ActionResult(g, m).g, current_turn,
                                   depth - 1, ~maximizing) : m \in LegalActions(g)}
         IN  IF maximizing THEN MaxOfSet(values \cup {-Inf})
             ELSE MinOfSet(values \cup {Inf})

\* The exact values of the successors of g in canonical order, each from the
\* opponent's reply onward with d further plies.
SuccessorValues(g, d) ==
    LET all == AllSuccessors(g)
    IN  [i \in 1..Len(all.states) |->
            ExactValue(all.heap[all.states[i].game], g.turn, d, FALSE)]

(***************************************************************************)
(* C18: MinimaxAgent with max_depth = d returns, for a non-FINISHED game,  *)
(* the first successor in canonical order whose value is maximal, where a  *)
(* successor's value is the exact (un-pruned) depth-bounded minimax value  *)
(* computed from the opponent's reply onward with d further plies and the  *)
(* leaf evaluation at depth 0 or FINISHED: alpha-beta pruning never        *)
(* changes the chosen successor, and a later successor replaces the best   *)
(* one only when its value is strictly greater.                            *)
(***************************************************************************)
C18_MinimaxChoice ==
    (game.mode # "FINISHED" /\ ~agent.searching) =>
        \A d \in 0..MaxDepth :
            LET all == AllSuccessors(game)
                values == SuccessorValues(game, d)
                ch == Minimax_next_state(<<game>>, 1, d, <<0, 0, 0>>)
            IN  /\ ch.raised = "none"
                /\ ch.state # NoState
                /\ \E i \in 1..Len(all.states) :
                       /\ ch.state.move = all.states[i].move
                       /\ ch.heap[ch.state.game] = all.heap[all.states[i].game]
                       /\ \A j \in 1..Len(all.states) : values[j] <= values[i]
                       /\ \A j \in 1..(i - 1) : values[j] < values[i]

\* A search of depth MaxDepth in which the window cuts a maximizing node
\* short: below some successor s, a reply t is valued less by the pruned
\* search, with the window the replies before it leave, than it is worth.
C18_Witness ==
    /\ game.mode = "MOVE"
    /\ ~agent.searching
    /\ MaxDepth >= 2
    /\ LET all == AllSuccessors(game)
       IN  \E i \in 1..Len(all.states) :
               LET s == all.heap[all.states[i].game]
                   replies == AllSuccessors(s)
                   t(k) == replies.heap[replies.states[k].game]
                   worth(k) == ExactValue(t(k), game.turn, MaxDepth - 1, TRUE)
               IN  /\ s.mode # "FINISHED"
                   /\ \E k \in 2..Len(replies.states) :
                          LET beta == MinOfSet({worth(q) : q \in 1..(k - 1)})
                          IN  /\ t(k).mode # "FINISHED"
                              /\ max_value(<<t(k)>>, 1, game.turn, -Inf, beta,
                                           MaxDepth - 1, <<0, 0, 0>>).value < worth(k)

\* Several successors share the maximal value and the first of them is not
\* the last successor.
C18_TieReached ==
    /\ game.mode = "MOVE"
    /\ ~agent.searching
    /\ LET values == SuccessorValues(game, MaxDepth)
       IN  \E i, j \in 1..Len(values) :
               /\ i < j
               /\ values[i] = values[j]
               /\ \A k \in 1..Len(values) : values[k] <= values[i]

(***************************************************************************)
(* C19: minimax determinism: for a fixed max_depth, two runs of            *)
(* MinimaxAgent.next_move on equal games return the same Move, because     *)
(* successors(shuffle=False) enumerates the same sequence of successors    *)
(* every time it is called on equal games.  The two runs are two game      *)
(* objects with equal contents, with whatever a shuffle would draw in      *)
(* either run.                                                             *)
(***************************************************************************)
C19_MinimaxDeterminism ==
    ~agent.searching =>
        \A ks \in ShufflesTried :
            /\ \A d \in 0..MaxDepth :
                   next_move(Minimax_next_state(<<game, game>>, 1, d, <<0, 0, 0>>)).move
                       = next_move(Minimax_next_state(<<game, game>>, 2, d, ks)).move
            /\ LET one == consume(<<game, game>>,
                                  successors(State(<<game, game>>, 1, NoMove), FALSE),
                                  <<0, 0, 0>>, -1, <<>>)
                   two == consume(<<game, game>>,
                                  successors(State(<<game, game>>, 2, NoMove), FALSE),
                                  ks, -1, <<>>)
               IN  /\ Len(one.states) = Len(two.states)
                   /\ \A i \in 1..Len(one.states) :
                          /\ one.states[i].move = two.states[i].move
                          /\ one.heap[one.states[i].game] = two.heap[two.states[i].game]

\* A game in the moving phase with several successors, where a shuffled
\* enumeration starts with another successor than the canonical one.
C19_Witness ==
    /\ game.mode = "MOVE"
    /\ ~agent.searching
    /\ Len(AllSuccessors(game).states) > 1
    /\ \E ks \in ShufflesTried :
           RandomAgent_next_state(<<game>>, 1, ks).state.move
               # AllSuccessors(game).states[1].move

\* The nodes from a node up to the root, following parent.
RECURSIVE PathToRoot(_, _)
PathToRoot(nodes, node) ==
    IF node = 0 THEN {}
    ELSE {node} \cup PathToRoot(nodes, nodes[node].parent)

\* The visits one completed iteration brings under an executor.
RunsOf(executor) == IF executor.present /\ executor.runs > 1 THEN executor.runs ELSE 1

\* A step that completes one run_iteration of the search in progress.
IterationCompleted ==
    /\ agent.searching
    /\ agent'.searching
    /\ agent'.done = agent.done + 1

\* What a completed iteration did to the counters: nodes is the tree
\* before, nodes' the tree after (tree_policy may have appended one node,
\* whose counters start at 0).
BackedUp ==
    LET old == agent.montecarlo_tree.nodes
        new == agent'.montecarlo_tree.nodes
        n == RunsOf(agent.executor)
        path == PathToRoot(new, agent'.selected)
        visits(i) == IF i <= Len(old) THEN old[i].visits ELSE 0
        rewards(i) == IF i <= Len(old) THEN old[i].accumulated_rewards ELSE 0
    IN  /\ Len(old) <= Len(new)
        /\ agent'.selected \in 1..Len(new)
        /\ 1 \in path
        /\ agent'.reward \in 0..(2 * n)
        /\ \A i \in 1..Len(new) :
               IF i \in path
               THEN /\ new[i].visits = visits(i) + n
                    /\ new[i].accumulated_rewards = rewards(i) + agent'.reward
               ELSE /\ new[i].visits = visits(i)
                    /\ new[i].accumulated_rewards = rewards(i)

C20_SingleRunReached ==
    /\ agent.searching
    /\ agent.executor.present
    /\ agent.executor.runs = 1
    /\ agent.done >= 2
    /\ agent.montecarlo_tree.nodes[1].visits = agent.done

\* The root's expanded children of the search in progress, and their
\* counters.
RootChildren == agent.montecarlo_tree.nodes[1].expanded_children

ChildVisits(i) == agent.montecarlo_tree.nodes[RootChildren[i]].visits

ChildRewards(i) == agent.montecarlo_tree.nodes[RootChildren[i]].accumulated_rewards

(***************************************************************************)
(* C21: MonteCarloTree.best_node returns the root's expanded child with    *)
(* the highest average reward (accumulated_rewards / visits, not the UCT   *)
(* score), the first-expanded one among equal averages, and raises         *)
(* ValueError when the root has no expanded child (no iteration has run).  *)
(* Averages are compared as fractions: a / v <= b / w iff a * w <= b * v.  *)
(***************************************************************************)
C21_BestNode ==
    agent.searching =>
        LET best == best_node(agent.montecarlo_tree)
        IN  IF Len(RootChildren) = 0
            THEN /\ best.raised = "ValueError"
                 /\ agent.done = 0 \/ game.mode = "FINISHED"
            ELSE /\ best.raised = "none"
                 /\ \E i \in 1..Len(RootChildren) :
                        /\ best.node = RootChildren[i]
                        /\ \A j \in 1..Len(RootChildren) :
                               /\ ChildVisits(j) > 0
                               /\ ChildRewards(j) * ChildVisits(i)
                                      <= ChildRewards(i) * ChildVisits(j)
                        /\ \A j \in 1..(i - 1) :
                               ChildRewards(j) * ChildVisits(i)
                                   < ChildRewards(i) * ChildVisits(j)
                 /\ best_state(agent.montecarlo_tree, agent.heap).state
                        = agent.montecarlo_tree.nodes[best.node].state

\* After three or four iterations of one rollout each the best child has
\* two or three visits and a sibling has one visit and a lower average, the
\* averages being at most half a win apart: by UCT with the agent's cp,
\* whose bonus is 2 * sqrt(ln(root visits) / visits), the sibling scores
\* higher (the bonuses differ by more than 0.6).
C21_Witness ==
    /\ agent.searching
    /\ agent.montecarlo_tree.nodes[1].visits \in {3, 4}
    /\ agent.montecarlo_tree.nodes[1].visits = agent.done
    /\ LET best == best_node(agent.montecarlo_tree)
       IN  /\ best.raised = "none"
           /\ \E i, j \in 1..Len(RootChildren) :
                  /\ best.node = RootChildren[i]
                  /\ ChildVisits(i) \in {2, 3}
                  /\ ChildVisits(j) = 1
                  /\ ChildRewards(i) > ChildVisits(i) * ChildRewards(j)
                  /\ ChildRewards(i) - ChildVisits(i) * ChildRewards(j) <= ChildVisits(i)

\* Several children share the highest average and the best one is the
\* first of them.
C21_TieReached ==
    /\ agent.searching
    /\ LET best == best_node(agent.montecarlo_tree)
       IN  /\ best.raised = "none"
           /\ \E i, j \in 1..Len(RootChildren) :
                  /\ i < j
                  /\ best.node = RootChildren[i]
                  /\ ChildRewards(i) > 0
                  /\ ChildRewards(j) * ChildVisits(i) = ChildRewards(i) * ChildVisits(j)

\* The best child is not the first one expanded.
C21_LaterChildReached ==
    /\ agent.searching
    /\ LET best == best_node(agent.montecarlo_tree)
       IN  best.raised = "none" /\ best.node # RootChildren[1]

(***************************************************************************)
(* Vocabulary of the QTable properties.                                    *)
(***************************************************************************)
\* The (state key, move key) pairs that have an entry.
Entries(table) ==
    UNION {{<<k, table[k][i].key>> : i \in 1..Len(table[k])} : k \in DOMAIN table}

\* The value stored for a pair that has an entry.
Stored(table, pair) ==
    LET row == table[pair[1]]
    IN  row[CHOOSE i \in 1..Len(row) : row[i].key = pair[2]].reward

\* The key of the current state and the State objects it may come from.
CurrentState == State(<<game>>, 1, NoMove)

CurrentKey == get_state_key(<<game>>, CurrentState)

(***************************************************************************)
(* C22: QTable.apply_reward(state, move, reward, max_reward, lr, df,       *)
(* initial_value) stores at (state key, move key) the value                *)
(* old + lr*(reward + df*max_reward - old), where old is the stored value  *)
(* for that pair or initial_value (default 0) when no entry exists, and    *)
(* changes no other entry of the table.  The value is compared in the form *)
(* (1 - lr)*old + lr*reward + lr*df*max_reward.                            *)
(***************************************************************************)
C22_ApplyReward ==
    lastOp \in {"new", "apply_reward", "_run_episode", "perform_move"} =>
        \A m \in QMoves(game) : \A reward \in Rewards : \A max \in MaxRewards :
        \A rates \in Rates :
            LET table == agent.q_table
                after == apply_reward(table, <<game>>, CurrentState, m, reward, max,
                                      rates[1], rates[2], rates[3])
                pair == <<CurrentKey, to_compressed(m)>>
                old == IF pair \in Entries(table) THEN Stored(table, pair) ELSE rates[3]
                lr == rates[1]
                df == rates[2]
            IN  /\ Entries(after) = Entries(table) \cup {pair}
                /\ Stored(after, pair)
                       = plus(plus(times(minus(One, lr), old), times(lr, reward)),
                              times(times(lr, df), max))
                /\ \A other \in Entries(table) \ {pair} :
                       Stored(after, other) = Stored(table, other)
                /\ \A k \in DOMAIN after : \A i, j \in 1..Len(after[k]) :
                       after[k][i].key = after[k][j].key => i = j

\* apply_reward has just been called twice: the current state has an entry
\* that was updated from its stored value (a quarter appears only then) or
\* stands beside an entry of another state, which an update has to leave.
C22_Witness ==
    /\ lastOp = "apply_reward"
    /\ agent.updates = 2
    /\ \E pair \in Entries(agent.q_table) :
           /\ pair[1] = CurrentKey
           /\ from_compressed(pair[2]) \in QMoves(game)
           /\ Stored(agent.q_table, pair)[2] = 4

\* The table holds entries of two states, one of them the current state.
C22_TwoStatesReached ==
    /\ lastOp = "apply_reward"
    /\ \E a, b \in Entries(agent.q_table) : a[1] = CurrentKey /\ b[1] # CurrentKey

(***************************************************************************)
(* C23: QTable.best_move(state) and QTable.max_reward(state) scan only the *)
(* stored entries whose move is a currently legal successor move of state  *)
(* (stored entries for moves that are not legal from this state are        *)
(* ignored), return the highest-valued of those, and return None when no   *)
(* legal move has a stored entry.                                          *)
(***************************************************************************)
\* The moves of list(state.successors()) for the current state.
LegalMoves ==
    LET all == AllSuccessors(game)
    IN  {all.states[i].move : i \in 1..Len(all.states)}

\* The current state's stored (move key, reward) pairs.
CurrentRow ==
    IF CurrentKey \in DOMAIN agent.q_table THEN agent.q_table[CurrentKey] ELSE <<>>

\* The positions of the row whose move is legal from the current state.
LegalStored ==
    {i \in 1..Len(CurrentRow) : from_compressed(CurrentRow[i].key) \in LegalMoves}

\* best_move and max_reward answer with a pair of the row taken from the
\* positions among and is not beaten by any of them, or with None.
AnswersFrom(among) ==
    LET best == best_move(agent.q_table, <<game>>, CurrentState).result
        top == max_reward(agent.q_table, <<game>>, CurrentState).result
    IN  IF among = {} THEN best = NoMove /\ top = NoReward
        ELSE \E i \in among :
                 /\ best = from_compressed(CurrentRow[i].key)
                 /\ top = CurrentRow[i].reward
                 /\ \A j \in among : ~greater(CurrentRow[j].reward, top)

\* C23: the answers of best_move and max_reward come from the stored
\* entries of legal moves only, the highest-valued of them, None if there
\* is none.
C23_LegalEntriesOnly == AnswersFrom(LegalStored)

\* What the program does: every stored entry of the state key takes part.
C23_EveryStoredEntry == AnswersFrom(1..Len(CurrentRow))

\* best_move returns a move that is not legal from the current state.
C23_IllegalBestMoveReached ==
    /\ game.mode # "FINISHED"
    /\ LegalStored # {}
    /\ best_move(agent.q_table, <<game>>, CurrentState).result \notin LegalMoves \cup {NoMove}

\* QAgent.perform_move on such a table ends in the exception of the rule
\* the stored move breaks.
C23_QAgentRaisesReached ==
    /\ lastOp \notin {"new", "apply_reward", "_run_episode", "perform_move", "read"}
    /\ LegalStored # {}

(***************************************************************************)
(* C24: when the max/best over a state's moves is computed, a legal move   *)
(* with no stored entry counts as value 0 (so a state whose stored entries *)
(* are all negative but which has an unstored legal move has maximum 0),   *)
(* and no read operation (get_reward, best_move, max_reward) ever adds an  *)
(* entry to the table.                                                     *)
(***************************************************************************)
\* The value of a legal move of the current state: its stored value, 0 if
\* it has no entry.
ValueOrZero(m) ==
    LET at == PositionOf(CurrentRow, get_move_key(m))
    IN  IF at = 0 THEN Zero ELSE CurrentRow[at].reward

\* The maximum Trainer._run_episode takes for the current state: max_reward,
\* 0 for None.
MaxTaken ==
    LET found == max_reward(agent.q_table, <<game>>, CurrentState).result
    IN  IF found = NoReward THEN Zero ELSE found

\* The tables the reads of the current state leave.
TablesLeftByReads ==
    {get_reward(agent.q_table, <<game>>, CurrentState, m).table : m \in QMoves(game)}
        \cup {best_move(agent.q_table, <<game>>, CurrentState).table,
              max_reward(agent.q_table, <<game>>, CurrentState).table,
              max_reward_move(agent.q_table, <<game>>, CurrentState).table}

C24_ReadsAddNothing ==
    /\ TablesLeftByReads = {agent.q_table}
    /\ lastOp = "read" => \A k \in DOMAIN agent.q_table : Len(agent.q_table[k]) > 0

\* Every stored entry of the current state is of a legal move and negative,
\* a legal move has no entry, and the maximum is negative, not 0.
C24_NegativeMaxReached ==
    /\ CurrentRow # <<>>
    /\ LegalStored = 1..Len(CurrentRow)
    /\ \A i \in 1..Len(CurrentRow) : greater(Zero, CurrentRow[i].reward)
    /\ \E m \in LegalMoves : PositionOf(CurrentRow, get_move_key(m)) = 0
    /\ greater(Zero, MaxTaken)

(***************************************************************************)
(* Vocabulary of the state key property.                                   *)
(***************************************************************************)
\* The cells of a mark on the board of a State's game.
CellsOf(heap, st, mark) ==
    {BoardPositions[i] : i \in {j \in 1..BOARD_SIZE : heap[st.game].board[j - 1] = mark}}

\* The occupied-cell partition, the turn and both remaining_pieces.
Situation(heap, st) ==
    [partition |-> <<CellsOf(heap, st, "EMPTY"), CellsOf(heap, st, "WHITE"),
                     CellsOf(heap, st, "BLACK")>>,
     turn |-> heap[st.game].turn,
     remaining |-> <<heap[st.game].players[WHITE].remaining_pieces,
                     heap[st.game].players[BLACK].remaining_pieces>>]

\* The latest State of the episode.
LatestState == State(<<game>>, 1, agent.last)

(***************************************************************************)
(* C25: the QTable state key is a function of exactly the occupied-cell    *)
(* partition (empty, white and black cells), the turn and both players'    *)
(* remaining_pieces: two States agreeing on these share one key, whatever  *)
(* their move history, parent, movements_made or alive_pieces, and whether *)
(* or not their successors were enumerated in shuffled order before; two   *)
(* States that differ in one of them have different keys.                  *)
(***************************************************************************)
C25_StateKey ==
    (Situation(agent.kept.heap, agent.kept.st) = Situation(<<game>>, LatestState))
        <=> (get_state_key(agent.kept.heap, agent.kept.st)
                 = get_state_key(<<game>>, LatestState))

\* Two States of one episode share their key: the first one has no Move
\* and had its lists shuffled, the latest one is four movements younger and
\* came from a Move.
C25_Witness ==
    /\ get_state_key(agent.kept.heap, agent.kept.st) = get_state_key(<<game>>, LatestState)
    /\ agent.kept.heap[1].movements_made + 4 = game.movements_made
    /\ agent.kept.st.move = NoMove
    /\ agent.last # NoMove
    /\ agent.kept.st.free_pieces # agent.kept.st.game_info.free_pieces

\* Same turn and remaining_pieces, other cells: the keys differ.
C25_OtherCellsReached ==
    /\ Situation(agent.kept.heap, agent.kept.st).partition
           # Situation(<<game>>, LatestState).partition
    /\ agent.kept.heap[1].turn = game.turn
    /\ game.movements_made = agent.kept.heap[1].movements_made + 2
    /\ get_state_key(agent.kept.heap, agent.kept.st) # get_state_key(<<game>>, LatestState)

(***************************************************************************)
(* Vocabulary of the packed Move property.                                 *)
(***************************************************************************)
\* a | b on naturals.
RECURSIVE BitOr(_, _)
BitOr(a, b) ==
    IF a = 0 THEN b
    ELSE IF b = 0 THEN a
    ELSE 2 * BitOr(a \div 2, b \div 2) + (IF a % 2 = 1 \/ b % 2 = 1 THEN 1 ELSE 0)

\* The index of a cell, 0xFF for None.
CellIndex(pos) == IF pos = NoPos THEN 255 ELSE pos[1] * CELLS_PER_RING + pos[2]

\* The Moves that differ from m in exactly one of the three fields.
OneFieldAway(m) ==
    LET cells == {BoardPositions[i] : i \in 1..BOARD_SIZE}
    IN  ({[m EXCEPT !.next_pos = p] : p \in cells}
             \cup {[m EXCEPT !.pos_init = p] : p \in cells \cup {NoPos}}
             \cup {[m EXCEPT !.kill = p] : p \in cells \cup {NoPos}}) \ {m}

(***************************************************************************)
(* C26: for every Move whose next_pos is one of the 24 cells and whose     *)
(* pos_init and kill are each either None or one of the 24 cells,          *)
(* Move.from_compressed(m.to_compressed()) equals m, the code being        *)
(* (to<<16)|(from<<8)|removed over cell indices ring*8+cell with 0xFF as   *)
(* the absent sentinel; distinct moves never share a code.                 *)
(***************************************************************************)
C26_RoundTrip ==
    /\ lastOp \in {"to_compressed", "from_compressed"} =>
           /\ agent.compressed
                  = BitOr(BitOr(CellIndex(agent.move.next_pos) * (2 ^ 16),
                                CellIndex(agent.move.pos_init) * (2 ^ 8)),
                          CellIndex(agent.move.kill))
           /\ \A o \in OneFieldAway(agent.move) : to_compressed(o) # agent.compressed
    /\ lastOp = "from_compressed" => agent.unpacked = agent.move

\* A placement that removes, packed and unpacked: pos_init is the absent
\* sentinel, the other two fields are cells of the last ring.
C26_Witness ==
    /\ lastOp = "from_compressed"
    /\ agent.move = MoveTag(<<2, 7>>, NoPos, <<2, 6>>)
    /\ agent.compressed = 23 * (2 ^ 16) + 255 * (2 ^ 8) + 22
    /\ agent.unpacked = agent.move

\* A move with both optional fields absent has been unpacked.
C26_BothAbsentReached ==
    /\ lastOp = "from_compressed"
    /\ agent.move.pos_init = NoPos /\ agent.move.kill = NoPos
    /\ agent.unpacked.pos_init = NoPos /\ agent.unpacked.kill = NoPos

(***************************************************************************)
(* Vocabulary of the Board properties.                                     *)
(***************************************************************************)
\* Same ring at cyclic cell distance 1, or the same odd cell in rings that
\* differ by exactly 1.
Neighbours(a, b) ==
    \/ a[1] = b[1] /\ (a[2] - b[2]) % CELLS_PER_RING \in {1, CELLS_PER_RING - 1}
    \/ a[2] = b[2] /\ a[2] % 2 = 1 /\ (a[1] = b[1] + 1 \/ b[1] = a[1] + 1)

\* The 16 lines: in each ring the triples that start at an even cell, and
\* the same odd cell in all three rings.
Lines ==
    {{<<ring, start>>, <<ring, start + 1>>, <<ring, (start + 2) % CELLS_PER_RING>>} :
        ring \in 0..(RINGS - 1), start \in {0, 2, 4, 6}}
        \cup {{<<ring, cell>> : ring \in 0..(RINGS - 1)} : cell \in {1, 3, 5, 7}}

MarkAt(pos) == get_cell(game.board, pos[1], pos[2])

(***************************************************************************)
(* C27: for all pairs of in-range positions, are_adjacent(a, b) holds      *)
(* exactly when a and b are in the same ring at cyclic cell distance 1     *)
(* (including cells 7 and 0), or have the same odd cell index in rings     *)
(* that differ by exactly 1; the relation is symmetric and irreflexive,    *)
(* corner (even) cells have no cross-ring neighbour, and rings 0 and 2 are *)
(* never directly adjacent.  The pairs checked on a board are those of a   *)
(* marked position and any position; every position is marked on some     *)
(* board.                                                                  *)
(***************************************************************************)
C27_Adjacency ==
    \A a \in {p \in ALL_BOARD_POSITIONS : MarkAt(p) # "EMPTY"} :
    \A b \in ALL_BOARD_POSITIONS :
        LET adjacent == are_adjacent(a[1], a[2], b[1], b[2])
        IN  /\ adjacent <=> Neighbours(a, b)
            /\ adjacent <=> are_adjacent(b[1], b[2], a[1], a[2])
            /\ a = b => ~adjacent
            /\ (a[2] % 2 = 0 /\ a[1] # b[1]) => ~adjacent
            /\ ({a[1], b[1]} = {0, 2}) => ~adjacent

\* A mark on cell 7 of a ring and one on a spoke of the middle ring: the
\* first is adjacent to cell 0 of its ring, the second to both other rings,
\* which are not adjacent to each other.
C27_Witness ==
    /\ MarkAt(<<0, 7>>) # "EMPTY" /\ MarkAt(<<1, 1>>) # "EMPTY"
    /\ are_adjacent(0, 7, 0, 0) /\ are_adjacent(0, 0, 0, 7)
    /\ are_adjacent(1, 1, 0, 1) /\ are_adjacent(1, 1, 2, 1)
    /\ ~are_adjacent(0, 1, 2, 1)
    /\ ~are_adjacent(0, 0, 1, 0)

(***************************************************************************)
(* C28: for every board and every in-range cell, is_mill(ring, cell) is    *)
(* true iff the cell is non-empty and at least one of the 16 legal lines   *)
(* through it is fully occupied by its owner: the ring triples starting at *)
(* an even cell index and the four spoke triples.  Three consecutive       *)
(* same-owner cells of a ring starting at an odd index are not a mill, and *)
(* is_mill is false for an empty cell.                                     *)
(***************************************************************************)
C28_Mill ==
    /\ Cardinality(Lines) = 16
    /\ \A pos \in ALL_BOARD_POSITIONS :
           is_mill(game.board, pos[1], pos[2])
               <=> /\ MarkAt(pos) # "EMPTY"
                   /\ \E line \in Lines :
                          pos \in line /\ \A q \in line : MarkAt(q) = MarkAt(pos)

\* One owner holds the cells 5, 6 and 7 of a ring: none of them is in a mill.
C28_Witness ==
    \E ring \in 0..(RINGS - 1) :
        /\ MarkAt(<<ring, 5>>) # "EMPTY"
        /\ MarkAt(<<ring, 6>>) = MarkAt(<<ring, 5>>)
        /\ MarkAt(<<ring, 7>>) = MarkAt(<<ring, 5>>)
        /\ \A cell \in 5..7 : ~is_mill(game.board, ring, cell)

\* A line of a ring through the cells 6, 7 and 0 is a mill at each of them.
C28_WrapLineReached ==
    /\ MarkAt(<<1, 6>>) = "BLACK" /\ MarkAt(<<1, 7>>) = "BLACK" /\ MarkAt(<<1, 0>>) = "BLACK"
    /\ \A cell \in {6, 7, 0} : is_mill(game.board, 1, cell)

\* A spoke line is a mill at each of its cells.
C28_SpokeLineReached ==
    /\ \A ring \in 0..(RINGS - 1) : MarkAt(<<ring, 3>>) = "WHITE"
    /\ \A ring \in 0..(RINGS - 1) : is_mill(game.board, ring, 3)

\* Two marks of one owner and one of the other on a line: no mill.
C28_MixedLineReached ==
    /\ MarkAt(<<0, 0>>) = "WHITE" /\ MarkAt(<<0, 1>>) = "WHITE" /\ MarkAt(<<0, 2>>) = "BLACK"
    /\ \A cell \in 0..2 : ~is_mill(game.board, 0, cell)

(***************************************************************************)
(* C29: for every board and every in-range cell,                           *)
(* Board.is_any_adjacent_cell_empty(ring, cell) is true iff there is an    *)
(* in-range position p with are_adjacent((ring, cell), p) and p empty; in  *)
(* particular an empty cell 7 counts as adjacent-empty for cell 0 of the   *)
(* same ring and an empty cell 0 for cell 7.                               *)
(***************************************************************************)
C29_AdjacentEmpty ==
    \A pos \in ALL_BOARD_POSITIONS :
        is_any_adjacent_cell_empty(game.board, pos[1], pos[2])
            <=> \E p \in ALL_BOARD_POSITIONS :
                    are_adjacent(pos[1], pos[2], p[1], p[2]) /\ MarkAt(p) = "EMPTY"

\* What the program computes: the neighbours at cell - 1 and cell + 1
\* without the step between the cells 7 and 0, and the spoke neighbours.
C29_WithoutWrap ==
    \A pos \in ALL_BOARD_POSITIONS :
        is_any_adjacent_cell_empty(game.board, pos[1], pos[2])
            <=> \E p \in ALL_BOARD_POSITIONS :
                    /\ are_adjacent(pos[1], pos[2], p[1], p[2])
                    /\ ~(pos[1] = p[1] /\ {pos[2], p[2]} = {0, CELLS_PER_RING - 1})
                    /\ MarkAt(p) = "EMPTY"

\* Cell 1 of a ring is occupied and cell 7 is empty: cell 0 has an empty
\* neighbour and is_any_adjacent_cell_empty denies it.
C29_MissedWrapReached ==
    /\ MarkAt(<<0, 1>>) # "EMPTY"
    /\ MarkAt(<<0, 7>>) = "EMPTY"
    /\ are_adjacent(0, 0, 0, 7)
    /\ ~is_any_adjacent_cell_empty(game.board, 0, 0)

(***************************************************************************)
(* C30: piece accounting.  In every state reachable from a new game by any *)
(* sequence of place, move, remove, place_and_remove and move_and_remove,  *)
(* for each player the number of that player's marks on the board equals   *)
(* alive_pieces - remaining_pieces.                                        *)
(***************************************************************************)
C30_PieceAccounting ==
    \A t \in {WHITE, BLACK} :
        Cardinality(OnBoard(game, t))
            = game.players[t].alive_pieces - game.players[t].remaining_pieces

\* The accounting holds as long as no place_and_remove has succeeded: it
\* holds in every state that is not reached by a place_and_remove, provided
\* it held before.
C30_AccountingKeptBySteps ==
    [][(C30_PieceAccounting /\ lastOp' # "place_and_remove") => C30_PieceAccounting']_vars

\* place_and_remove has just succeeded and the accounts of both players are
\* off by one, in opposite directions.
C30_BrokenByCompositeReached ==
    /\ lastOp = "place_and_remove"
    /\ \E t \in {WHITE, BLACK} :
           /\ Cardinality(OnBoard(game, t))
                  = game.players[t].alive_pieces - game.players[t].remaining_pieces + 1
           /\ Cardinality(OnBoard(game, 1 - t))
                  = game.players[1 - t].alive_pieces
                        - game.players[1 - t].remaining_pieces - 1

(***************************************************************************)
(* C31: counter range.  In every state reachable from a new game by any    *)
(* sequence of place, move, remove, place_and_remove and move_and_remove,  *)
(* each player's remaining_pieces stays within 0..NUM_PIECES_PER_PLAYER    *)
(* (it never goes negative) and each player's alive_pieces stays within    *)
(* 2..NUM_PIECES_PER_PLAYER.                                               *)
(***************************************************************************)
C31_CounterRange ==
    \A t \in {WHITE, BLACK} :
        /\ game.players[t].remaining_pieces \in 0..NUM_PIECES_PER_PLAYER
        /\ game.players[t].alive_pieces \in 2..NUM_PIECES_PER_PLAYER

\* The part that holds: alive_pieces stays in range and remaining_pieces
\* never exceeds the number of pieces.
C31_AliveInRange ==
    \A t \in {WHITE, BLACK} :
        /\ game.players[t].remaining_pieces <= NUM_PIECES_PER_PLAYER
        /\ game.players[t].alive_pieces \in 2..NUM_PIECES_PER_PLAYER

\* The counters are in range wherever the piece accounting of C30 holds:
\* they leave it only after a place_and_remove has broken the accounting.
C31_InRangeWhileAccounted ==
    C30_PieceAccounting => C31_CounterRange

\* place_and_remove has just succeeded and a player has -1 pieces left to
\* place.
C31_NegativeReached ==
    /\ lastOp = "place_and_remove"
    /\ \E t \in {WHITE, BLACK} : game.players[t].remaining_pieces = -1

(***************************************************************************)
(* C32: no dead end in the removal sub-mode.  In every state reachable     *)
(* from a new game by place, move and remove in which has_to_delete is     *)
(* true, at least one cell passes check_remove, so the pending removal can *)
(* always be completed.                                                    *)
(***************************************************************************)
C32_RemovalPossible ==
    game.has_to_delete =>
        \E pos \in ALL_BOARD_POSITIONS : check_remove(game, pos[1], pos[2]) = "none"

\* A removal is pending and every piece of the opponent is part of a mill:
\* the protection is lifted and a cell passes check_remove.
C32_Witness ==
    /\ game.has_to_delete
    /\ lastOp \in {"place", "move"}
    /\ all_pieces_form_mill(game, other_player(game))
    /\ \E pos \in ALL_BOARD_POSITIONS : check_remove(game, pos[1], pos[2]) = "none"

\* A removal is pending while some of the opponent's pieces are protected
\* by a mill and others are not.
C32_ProtectedReached ==
    /\ game.has_to_delete
    /\ \E pos \in OnBoard(game, other_player(game)) :
           check_remove(game, pos[1], pos[2]) # "none"
    /\ \E pos \in OnBoard(game, other_player(game)) :
           check_remove(game, pos[1], pos[2]) = "none"

(***************************************************************************)
(* Vocabulary of the tree policy's properties: the games the nodes of the  *)
(* search in progress wrap, and the successors State.successors() yields   *)
(* for them.                                                               *)
(***************************************************************************)
\* The games list(State(g).successors()) wraps, in the order yielded.
SuccessorGames(g) ==
    LET all == AllSuccessors(g)
    IN  [i \in 1..Len(all.states) |-> all.heap[all.states[i].game]]

\* The game a node of the tree wraps.
NodeGame(nodes, heap, n) == heap[nodes[n].state.game]

\* Every successor of the node's game has been expanded.
FullyExpanded(nodes, heap, n) ==
    Len(nodes[n].expanded_children) = Len(SuccessorGames(NodeGame(nodes, heap, n)))

\* The nodes above a node, up to the root.
Ancestors(nodes, n) == PathToRoot(nodes, nodes[n].parent)

\* The shape of the tree of the search in progress.
TreeShape ==
    LET nodes == agent.montecarlo_tree.nodes
        heap == agent.heap
    IN  \A n \in 1..Len(nodes) :
            LET children == nodes[n].expanded_children
                succ == SuccessorGames(NodeGame(nodes, heap, n))
            IN  /\ NodeGame(nodes, heap, n).mode = "FINISHED" => children = <<>>
                /\ n > 1 => \E i \in 1..Len(nodes[nodes[n].parent].expanded_children) :
                                nodes[nodes[n].parent].expanded_children[i] = n
                /\ \A i \in 1..Len(children) :
                       /\ children[i] \in (n + 1)..Len(nodes)
                       /\ nodes[children[i]].parent = n
                       /\ \E k \in 1..Len(succ) :
                              succ[k] = NodeGame(nodes, heap, children[i])
                       /\ \A j \in 1..Len(children) :
                              i # j => NodeGame(nodes, heap, children[i])
                                          # NodeGame(nodes, heap, children[j])

\* What the tree policy of a completed iteration did: old is the tree
\* before, new the tree after, and the selected node is the one the rollout
\* was played from: a FINISHED node the tree had, or a new child of the
\* first node of the descent that was not fully expanded.
Descended ==
    LET old == agent.montecarlo_tree.nodes
        new == agent'.montecarlo_tree.nodes
        sel == agent'.selected
        through(n) == FullyExpanded(old, agent.heap, n)
                          /\ NodeGame(old, agent.heap, n).mode # "FINISHED"
    IN  /\ \A i \in 1..Len(old) :
               /\ i <= Len(new)
               /\ new[i].state = old[i].state
               /\ new[i].parent = old[i].parent
               /\ NodeGame(new, agent'.heap, i) = NodeGame(old, agent.heap, i)
        /\ IF sel <= Len(old)
           THEN /\ Len(new) = Len(old)
                /\ NodeGame(old, agent.heap, sel).mode = "FINISHED"
                /\ \A a \in Ancestors(new, sel) : through(a)
           ELSE /\ Len(new) = Len(old) + 1
                /\ sel = Len(new)
                /\ new[sel].expanded_children = <<>>
                /\ new[sel].parent \in 1..Len(old)
                /\ NodeGame(old, agent.heap, new[sel].parent).mode # "FINISHED"
                /\ ~FullyExpanded(old, agent.heap, new[sel].parent)
                /\ \A a \in Ancestors(new, new[sel].parent) : through(a)

(***************************************************************************)
(* C33: MCTS tree policy: a node is descended through get_best_child only  *)
(* after all of its successors have been expanded; each iteration adds     *)
(* exactly one new node to the tree, a child of the first node on the      *)
(* descent that is not fully expanded, unless the descent ends at a        *)
(* terminal node, and then it adds none; a FINISHED node never gets a      *)
(* child; every expanded child of a node wraps a distinct successor of it. *)
(***************************************************************************)
C33_TreePolicy ==
    /\ [](agent.searching => TreeShape)
    /\ [][IterationCompleted => Descended]_vars

\* The root is fully expanded, and the last iteration went through one of
\* its children, which was not, and added a grandchild of the root.
C33_Witness ==
    /\ agent.searching
    /\ agent.selected > 0
    /\ LET nodes == agent.montecarlo_tree.nodes
       IN  /\ agent.selected = Len(nodes)
           /\ nodes[agent.selected].parent > 1
           /\ FullyExpanded(nodes, agent.heap, 1)
           /\ Len(nodes[1].expanded_children) >= 2
           /\ ~FullyExpanded(nodes, agent.heap, nodes[agent.selected].parent)

\* The descent of the last iteration ended at a FINISHED node below the
\* root, to which the iterations before had added a node each.
C33_TerminalBelowRootReached ==
    /\ agent.searching
    /\ agent.selected > 1
    /\ agent.done > Len(agent.montecarlo_tree.nodes) - 1
    /\ NodeGame(agent.montecarlo_tree.nodes, agent.heap, agent.selected).mode = "FINISHED"

\* The search of a FINISHED game: the iterations select the root and add
\* nothing.
C33_TerminalRootReached ==
    /\ agent.searching
    /\ agent.done >= 2
    /\ agent.selected = 1
    /\ Len(agent.montecarlo_tree.nodes) = 1
    /\ game.mode = "FINISHED"

(***************************************************************************)
(* C34: MCTS precondition guard: in every tree reached by completed        *)
(* run_iteration calls from a root that is not FINISHED, every expanded    *)
(* node has visits >= 1, so that avg_reward is never read on a node with   *)
(* zero visits, uct_value is never evaluated on the root or with a parent  *)
(* of zero visits, and get_best_child is never called on a node with no    *)
(* expanded children.                                                      *)
(***************************************************************************)
C34_Preconditions ==
    (agent.searching /\ agent.heap[1].mode # "FINISHED") =>
        LET tree == agent.montecarlo_tree
            nodes == tree.nodes
        IN  /\ \A n \in 2..Len(nodes) : nodes[n].visits >= 1
            /\ agent.done >= 1 =>
                   /\ nodes[1].visits >= 1
                   /\ nodes[1].expanded_children # <<>>
                   /\ best_node(tree).raised = "none"
            /\ \A n \in 1..Len(nodes) :
                   /\ \A i \in 1..Len(nodes[n].expanded_children) :
                          uct_value_raised(tree, nodes[n].expanded_children[i]) = "none"
                   /\ (NodeGame(nodes, agent.heap, n).mode # "FINISHED"
                          /\ FullyExpanded(nodes, agent.heap, n)) =>
                          /\ nodes[n].expanded_children # <<>>
                          /\ get_best_child(tree, n).raised = "none"

\* After three iterations on a game that is not FINISHED the root is fully
\* expanded, so that the next descent compares the UCT scores of its
\* children, each visited already.
C34_Witness ==
    /\ agent.searching
    /\ agent.heap[1].mode # "FINISHED"
    /\ agent.done >= 3
    /\ LET nodes == agent.montecarlo_tree.nodes
       IN  /\ FullyExpanded(nodes, agent.heap, 1)
           /\ Len(nodes[1].expanded_children) >= 2
           /\ get_best_child(agent.montecarlo_tree, 1).children # {}
           /\ \E n \in 2..Len(nodes) : nodes[n].parent > 1 /\ nodes[n].visits >= 1

(***************************************************************************)
(* RolloutSpec: MonteCarloTree.default_policy, one pass of its while loop  *)
(* per step, on its own game object.  The games it is started on are new   *)
(* games with a small move cap and games in which the first three          *)
(* placements are made, with a cap two or three movements away; the steps  *)
(* stay within the input cells, as in PlaySpec.                            *)
(***************************************************************************)
\* The largest move cap of the games rolled out.
MaxRollout == 6

\* The player who starts holds two cells of a line of the outer ring, the
\* other player one cell of the middle ring.
RolloutCells == << <<0, 0>>, <<1, 0>>, <<0, 1>> >>

\* No rollout is running.
NoRollout ==
    [searching |-> FALSE, rolling |-> FALSE, current_turn |-> None,
     start |-> 0, steps |-> 0, reward |-> None]

RolloutInit ==
    /\ \E turn \in {WHITE, BLACK} : \E pieces \in {3, NUM_PIECES_PER_PLAYER} :
           \/ \E max_movements \in 1..MaxCap :
                  game = MillGame(turn, max_movements, pieces)
           \/ \E max_movements \in {MaxRollout - 1, MaxRollout} :
                  game = place_all(MillGame(turn, max_movements, pieces), RolloutCells)
    /\ lastOp = "new"
    /\ agent = NoRollout

\* default_policy(game, current_turn) is called: random_agent = RandomAgent().
DefaultPolicy ==
    /\ ~agent.rolling
    /\ \E current_turn \in {WHITE, BLACK} :
           agent' = [NoRollout EXCEPT !.rolling = TRUE,
                                      !.current_turn = current_turn,
                                      !.start = game.movements_made]
    /\ lastOp' = "default_policy"
    /\ UNCHANGED game

\* while game.mode != GameMode.FINISHED: random_agent.perform_move(game)
RolloutStep ==
    /\ agent.rolling
    /\ agent.reward = None
    /\ game.mode # "FINISHED"
    /\ \E r \in RandomMoves(game) :
           /\ r.raised = "none"
           /\ r.move # NoMove
           /\ WithinInputCells(r.move)
           /\ game' = r.heap[1]
    /\ agent' = [agent EXCEPT !.steps = @ + 1]
    /\ lastOp' = "perform_move"

\* The loop is left and the reward returned, counted in halves.
RolloutReturn ==
    /\ agent.rolling
    /\ agent.reward = None
    /\ game.mode = "FINISHED"
    /\ agent' = [agent EXCEPT !.reward = reward_of(game, agent.current_turn).reward]
    /\ lastOp' = "return"
    /\ UNCHANGED game

RolloutNext ==
    \/ DefaultPolicy
    \/ RolloutStep
    \/ RolloutReturn

RolloutSpec == RolloutInit /\ [][RolloutNext]_vars

\* The rollout was started on a game the claim is about.
RolledFromOpenGame ==
    /\ agent.rolling
    /\ game.max_movements # None
    /\ agent.start < game.max_movements
    /\ agent.steps = 0 => game.mode # "FINISHED"

\* The player the rules make the winner of a FINISHED game: the one who
\* made the last action, unless the cap was reached with nobody eliminated.
Won(g, t) ==
    /\ g.mode = "FINISHED"
    /\ ~(CapReached(g) /\ NobodyEliminated(g))
    /\ g.turn = t

Tied(g) == g.mode = "FINISHED" /\ CapReached(g) /\ NobodyEliminated(g)

\* The reward the claim gives for a FINISHED game, in halves.
ClaimedReward(g, t) == IF Tied(g) THEN 1 ELSE IF Won(g, t) THEN 2 ELSE 0

\* Every pass of the loop is one movement more; the loop is left at the cap
\* at the latest, and until then perform_move always finds a successor: the
\* movements left before the cap decrease with every pass, and no pass
\* raises.
RolloutBounded ==
    RolledFromOpenGame =>
        /\ game.movements_made = agent.start + agent.steps
        /\ agent.steps <= game.max_movements - agent.start
        /\ game.movements_made = game.max_movements => game.mode = "FINISHED"
        /\ ~game.has_to_delete
        /\ game.mode # "FINISHED" =>
               \A r \in RandomMoves(game) : r.raised = "none" /\ r.move # NoMove

(***************************************************************************)
(* C35: rollout termination: MonteCarloTree.default_policy started on a    *)
(* game that is not FINISHED, with a move cap and movements_made below it, *)
(* always reaches FINISHED, after at most max_movements - movements_made   *)
(* RandomAgent.perform_move steps, because every such step applies exactly *)
(* one successor and raises movements_made by exactly 1; the returned      *)
(* reward is 1 if the tree's perspective player won, 0 if it lost and 0.5  *)
(* for a tie (2, 0 and 1 in halves).                                       *)
(***************************************************************************)
C35_Rollout ==
    /\ [](RolloutBounded)
    /\ [][(RolledFromOpenGame /\ game.mode # "FINISHED" /\ lastOp' = "perform_move")
              => /\ game'.movements_made = game.movements_made + 1
                 /\ \E k \in 1..Len(SuccessorGames(game)) :
                        SuccessorGames(game)[k] = game']_vars
    /\ []((RolledFromOpenGame /\ lastOp = "return")
              => agent.reward = ClaimedReward(game, agent.current_turn))

\* The same, bar the reward of a game finished by an elimination on the
\* movement that reaches the cap.
C35_RolloutBarCapElimination ==
    /\ [](RolloutBounded)
    /\ [][(RolledFromOpenGame /\ game.mode # "FINISHED" /\ lastOp' = "perform_move")
              => /\ game'.movements_made = game.movements_made + 1
                 /\ \E k \in 1..Len(SuccessorGames(game)) :
                        SuccessorGames(game)[k] = game']_vars
    /\ []((RolledFromOpenGame /\ lastOp = "return"
               /\ ~(CapReached(game) /\ ~NobodyEliminated(game)))
              => agent.reward = ClaimedReward(game, agent.current_turn))

\* A rollout returned a win, a loss and a tie.
C35_WinReached == RolledFromOpenGame /\ lastOp = "return" /\ agent.reward = 2 /\ agent.steps >= 2

C35_LossReached == RolledFromOpenGame /\ lastOp = "return" /\ agent.reward = 0 /\ agent.steps >= 2

C35_TieReached == RolledFromOpenGame /\ lastOp = "return" /\ agent.reward = 1 /\ agent.steps >= 2

\* A rollout returned half a point for a game its perspective player won by
\* an elimination.
C35_WinCountedAsTieReached ==
    /\ RolledFromOpenGame
    /\ lastOp = "return"
    /\ agent.reward = 1
    /\ Won(game, agent.current_turn)

(***************************************************************************)
(* Vocabulary of the leaf evaluation's properties: the games a search of   *)
(* depth one evaluates, and the value the claim gives a game.              *)
(***************************************************************************)
\* The game the agent is asked about and the games of its successors.
EvaluatedGames ==
    {game} \cup {SuccessorGames(game)[k] : k \in 1..Len(SuccessorGames(game))}

\* The value for the player t: 7, -7 or 0 by the rules' winner of a
\* FINISHED game, else the difference of the pieces left to place.
ClaimedValue(g, t) ==
    IF g.mode = "FINISHED"
    THEN IF Tied(g) THEN 0 ELSE IF Won(g, t) THEN 7 ELSE -7
    ELSE Remaining(g, t) - Remaining(g, 1 - t)

(***************************************************************************)
(* C36: minimax leaf evaluation: at depth 0 or on a FINISHED game,         *)
(* _evaluate returns +7 if the game is FINISHED and the searched-for       *)
(* player is the winner, -7 if the other player is the winner, 0 for a     *)
(* tie, and for a game that is not FINISHED the signed difference of the   *)
(* two sides' piece counts (the searched-for player's count of pieces      *)
(* remaining to place minus the opponent's).                               *)
(***************************************************************************)
C36_Evaluate ==
    \A g \in EvaluatedGames : \A t \in {WHITE, BLACK} :
        evaluate(g, t) = ClaimedValue(g, t)

\* The same, bar the games finished by an elimination on the movement that
\* reaches the cap.
C36_EvaluateBarCapElimination ==
    \A g \in EvaluatedGames : \A t \in {WHITE, BLACK} :
        ~(CapReached(g) /\ ~NobodyEliminated(g)) =>
            evaluate(g, t) = ClaimedValue(g, t)

\* A game won by an elimination before the cap is worth 7 to the winner.
C36_WinReached ==
    \E g \in EvaluatedGames :
        g.mode = "FINISHED" /\ ~CapReached(g) /\ evaluate(g, g.turn) = 7
            /\ evaluate(g, 1 - g.turn) = -7

\* A tie at the cap is worth 0, and a game under way the difference of the
\* pieces left to place, which is not 0.
C36_TieReached ==
    \E g \in EvaluatedGames : Tied(g) /\ evaluate(g, g.turn) = 0

C36_DifferenceReached ==
    \E g \in EvaluatedGames : g.mode = "PLACE" /\ evaluate(g, WHITE) # 0

\* A game won by an elimination on the capped movement is worth 0.
C36_WinWorthNothingReached ==
    \E g \in EvaluatedGames :
        g.mode = "FINISHED" /\ ~NobodyEliminated(g) /\ evaluate(g, g.turn) = 0

(***************************************************************************)
(* C37: the text form of a State (str(state)) is a deterministic function  *)
(* of the empty cells, each side's occupied cells, the turn and both       *)
(* remaining counts: two States wrapping equal games produce the same      *)
(* string, also after successors(shuffle=True) has been consumed on one of *)
(* them.                                                                   *)
(***************************************************************************)
C37_StateText ==
    (Situation(agent.kept.heap, agent.kept.st) = Situation(<<game>>, LatestState))
        => (State_str(agent.kept.heap, agent.kept.st) = State_str(<<game>>, LatestState))

\* The same for a State whose successors were never asked for in shuffled
\* order; the texts of States that differ in a cell, the turn or a
\* remaining count differ.
C37_StateTextBeforeShuffle ==
    /\ (/\ Situation(agent.kept.heap, agent.kept.st) = Situation(<<game>>, LatestState)
        /\ agent.kept.st.free_pieces = agent.kept.st.game_info.free_pieces)
           => (State_str(agent.kept.heap, agent.kept.st)
                   = State_str(<<game>>, LatestState))
    /\ (Situation(agent.kept.heap, agent.kept.st) # Situation(<<game>>, LatestState))
           => (State_str(agent.kept.heap, agent.kept.st)
                   # State_str(<<game>>, LatestState))

\* Two States of equal games, four movements apart, with one text.
C37_SameTextReached ==
    /\ agent.kept.heap[1].movements_made + 4 = game.movements_made
    /\ agent.last # NoMove
    /\ State_str(agent.kept.heap, agent.kept.st) = State_str(<<game>>, LatestState)

\* Two States of one game: the text of the one whose successors were
\* enumerated in shuffled order lists the cells in another order.
C37_ShuffledTextReached ==
    /\ lastOp = "shuffle"
    /\ agent.kept.heap[1] = game
    /\ State_str(agent.kept.heap, agent.kept.st) # State_str(<<game>>, LatestState)

(***************************************************************************)
(* The relay server (src/server).  RelaySpec: one Game and the two         *)
(* connection handlers of its players, each a coroutine that reads a       *)
(* message and awaits game.forward_msg.  A step runs one coroutine from    *)
(* one await to the next; a coroutine whose call raised has ended.  The    *)
(* players are named by their assigned turn, 0 for white and 1 for black.  *)
(* Here the variable game is the Game with its asyncio.Lock (locked, and   *)
(* the queue of the coroutines waiting for it) and the messages it         *)
(* dispatched; agent holds where each coroutine is and the message it      *)
(* carries.                                                                *)
(***************************************************************************)
\* Game(..., max_consecutive_errors): the limit the games are made with.
MaxErrors == 2

\* The game messages the two players send in all.
MaxMessages == 5

GameMessages == {"MOVE", "INVALID_STATE", "FINNISH"}

\* Game.__init__ with preserve_order.
Game(turn, max_consecutive_errors) ==
    [max_consecutive_errors |-> max_consecutive_errors,
     finished_cnt |-> 0,
     turn |-> turn,
     cnts |-> <<0, 0>>,
     locked |-> FALSE,
     waiters |-> <<>>,
     seen |-> <<>>]

max_errors_reached(g) ==
    g.cnts[1] = g.max_consecutive_errors \/ g.cnts[2] = g.max_consecutive_errors

has_finished(g) == g.finished_cnt = 2 \/ max_errors_reached(g)

\* What a coroutine is left with: the game and the place it awaits at, or
\* the exception that ended it.
Handled(g, pc) == [g |-> g, pc |-> pc]

\* The exit of "async with self.lock".
release(g) == [g EXCEPT !.locked = FALSE]

\* _handle_forward_message from "opponent_player = ..." on: the match, then
\* the message is sent to the opponent if the game has not finished;
\* otherwise the STATS message is built, which raises: MessageType has no
\* member STATS.  The exception leaves the lock.
dispatch(g, player, msg_type) ==
    LET matched ==
            IF msg_type = "MOVE"
            THEN [g EXCEPT !.finished_cnt = 0, !.cnts[g.turn + 1] = 0]
            ELSE IF msg_type = "INVALID_STATE"
            THEN [g EXCEPT !.finished_cnt = 0, !.cnts[g.turn + 1] = @ + 1]
            ELSE [g EXCEPT !.finished_cnt = @ + 1, !.turn = 1 - @]
        entry(forwarded) ==
            [player |-> player, msg_type |-> msg_type, forwarded |-> forwarded]
    IN  IF ~has_finished(matched)
        THEN Handled([matched EXCEPT !.seen = Append(@, entry(TRUE))], "send_msg")
        ELSE Handled(release([matched EXCEPT !.seen = Append(@, entry(FALSE))]),
                     "AttributeError")

\* _handle_forward_message up to its first await, the lock being taken.
handle_forward_message(g, player, msg_type) ==
    IF g.turn # player THEN Handled(g, "send_not_your_turn")
    ELSE IF has_finished(g) THEN Handled(g, "send_has_finished")
    ELSE dispatch(g, player, msg_type)

RelayInit ==
    /\ \E turn \in {0, 1} : game = Game(turn, MaxErrors)
    /\ agent = [searching |-> FALSE,
                pc |-> <<"recv_msg", "recv_msg">>,
                msg |-> <<"none", "none">>,
                received |-> 0]
    /\ lastOp = "new"

\* The coroutine of a player goes on with the outcome h of its handler.
Continue(player, msg_type, h, op) ==
    /\ game' = h.g
    /\ agent' = [agent EXCEPT !.pc[player + 1] = h.pc, !.msg[player + 1] = msg_type]
    /\ lastOp' = op

\* A message of a player arrives and its handler awaits game.forward_msg:
\* has_finished is asked, then the lock is taken at once if it is free and
\* nobody waits for it; otherwise the coroutine queues for it.
ForwardMsg ==
    /\ agent.received < MaxMessages
    /\ \E player \in {0, 1} : \E msg_type \in GameMessages :
           /\ agent.pc[player + 1] = "recv_msg"
           /\ IF has_finished(game)
              THEN /\ agent' = [agent EXCEPT !.pc[player + 1] = "RuntimeError",
                                             !.received = @ + 1]
                   /\ lastOp' = "RuntimeError"
                   /\ UNCHANGED game
              ELSE IF ~game.locked /\ game.waiters = <<>>
              THEN LET h == handle_forward_message(
                                [game EXCEPT !.locked = TRUE], player, msg_type)
                   IN  /\ game' = h.g
                       /\ agent' = [agent EXCEPT !.pc[player + 1] = h.pc,
                                                 !.msg[player + 1] = msg_type,
                                                 !.received = @ + 1]
                       /\ lastOp' = "forward_msg"
              ELSE /\ game' = [game EXCEPT !.waiters = Append(@, player)]
                   /\ agent' = [agent EXCEPT !.pc[player + 1] = "lock",
                                             !.msg[player + 1] = msg_type,
                                             !.received = @ + 1]
                   /\ lastOp' = "wait"

\* The lock was released and the first coroutine of the queue takes it.
Acquire ==
    /\ ~game.locked
    /\ game.waiters # <<>>
    /\ LET player == Head(game.waiters)
       IN  Continue(player, agent.msg[player + 1],
                    handle_forward_message(
                        [game EXCEPT !.locked = TRUE, !.waiters = Tail(@)],
                        player, agent.msg[player + 1]),
                    "acquire")

\* A send_msg a handler awaited has completed.
Resume ==
    \E player \in {0, 1} :
        LET msg_type == agent.msg[player + 1]
        IN  \/ /\ agent.pc[player + 1] = "send_not_your_turn"
               /\ Continue(player, "none", Handled(release(game), "recv_msg"),
                           "return")
            \/ /\ agent.pc[player + 1] = "send_has_finished"
               /\ Continue(player, msg_type, dispatch(game, player, msg_type),
                           "dispatch")
            \/ /\ agent.pc[player + 1] = "send_msg"
               /\ Continue(player, "none",
                           Handled(release([game EXCEPT !.turn = 1 - @]), "recv_msg"),
                           "forwarded")

RelayNext ==
    \/ ForwardMsg
    \/ Acquire
    \/ Resume

RelaySpec == RelayInit /\ [][RelayNext]_vars

\* The messages sent on to the opponent, in order.
Forwarded(g) == SelectSeq(g.seen, LAMBDA e : e.forwarded)

(***************************************************************************)
(* C38: relay Game termination is stable under concurrency: once           *)
(* Game.has_finished() is true it stays true, and no MOVE, INVALID_STATE   *)
(* or FINNISH message is forwarded to the opponent afterwards, under every *)
(* interleaving of the two players' forward_msg calls.                     *)
(***************************************************************************)
C38_FinishedIsStable ==
    [][has_finished(game) =>
           (has_finished(game') /\ Forwarded(game') = Forwarded(game))]_vars

\* The same for the games that finish while no coroutine is waiting for
\* the lock: every later call raises RuntimeError.
C38_StableWithoutWaiters ==
    [][(has_finished(game) /\ game.waiters = <<>>
           /\ \A p \in {0, 1} : agent.pc[p + 1] # "send_has_finished")
          => (has_finished(game') /\ Forwarded(game') = Forwarded(game))]_vars

\* A game that had finished is not finished any more, and the message of
\* the coroutine that waited for the lock went on to the opponent.
C38_UnfinishedReached ==
    /\ lastOp = "dispatch"
    /\ ~has_finished(game)
    /\ \E i \in 1..Len(game.seen) : ~game.seen[i].forwarded
    /\ game.seen[Len(game.seen)].forwarded

\* The INVALID_STATE messages dispatched since the last MOVE.
ErrorsInARow(seen) ==
    LET moves == {i \in 1..Len(seen) : seen[i].msg_type = "MOVE"}
        last == IF moves = {} THEN 0 ELSE CHOOSE i \in moves : \A j \in moves : j <= i
    IN  Cardinality({i \in (last + 1)..Len(seen) : seen[i].msg_type = "INVALID_STATE"})

\* The same, of one player since that player's last MOVE.
OwnErrorsInARow(seen, player) ==
    ErrorsInARow(SelectSeq(seen, LAMBDA e : e.player = player))

(***************************************************************************)
(* C40: a relay Game is invalidated for errors only when                   *)
(* max_consecutive_errors INVALID_STATE messages have been seen            *)
(* consecutively: any MOVE message forwarded in between restarts the       *)
(* count, so INVALID_STATE messages separated by MOVE messages never add   *)
(* up to the limit.                                                        *)
(***************************************************************************)
C40_ConsecutiveErrors ==
    max_errors_reached(game) =>
        ErrorsInARow(game.seen) >= game.max_consecutive_errors

\* What the counters hold: for each player the INVALID_STATE messages of
\* that player since the player's own last MOVE.
C40_OwnConsecutiveErrors ==
    \A player \in {0, 1} :
        game.cnts[player + 1] = OwnErrorsInARow(game.seen, player)

\* The limit is reached by two INVALID_STATE messages of one player with a
\* MOVE of the other player forwarded between them.
C40_SeparatedErrorsReached ==
    /\ max_errors_reached(game)
    /\ Len(game.seen) = 3
    /\ game.seen[1].msg_type = "INVALID_STATE"
    /\ game.seen[2].msg_type = "MOVE" /\ game.seen[2].forwarded
    /\ game.seen[3].msg_type = "INVALID_STATE"

(***************************************************************************)
(* ServerSpec: GameServer.handle_msg for the players that are in no game.  *)
(* Each connection is a coroutine; a step runs one of them from one await  *)
(* to the next.  Here the variable game is the GameManager (the wait list, *)
(* a code mapped to 0 being absent, and the game of each player, 0 being   *)
(* none) with the Games made so far; agent holds where each coroutine is   *)
(* and the code its JOIN_GAME carried.                                     *)
(***************************************************************************)
NumPlayers == 3

NumCodes == 2

ServerInit ==
    /\ game = [wait_dict |-> [code \in 1..NumCodes |-> 0],
               player_to_game |-> [player \in 1..NumPlayers |-> 0],
               games |-> <<>>]
    /\ agent = [searching |-> FALSE,
                pc |-> [player \in 1..NumPlayers |-> "recv_msg"],
                game_code |-> [player \in 1..NumPlayers |-> 0]]
    /\ lastOp = "new"

\* CREATE_GAME: add_to_waitlist stores the player under a code that is not
\* in the wait list; building the OK message then raises NameError, the
\* name Message being imported for type checking only, and the coroutine
\* ends with the code still in the wait list.
CreateGame ==
    \E player \in 1..NumPlayers : \E game_code \in 1..NumCodes :
        /\ agent.pc[player] = "recv_msg"
        /\ game.player_to_game[player] = 0
        /\ game.wait_dict[game_code] = 0
        /\ game' = [game EXCEPT !.wait_dict[game_code] = player]
        /\ agent' = [agent EXCEPT !.pc[player] = "NameError"]
        /\ lastOp' = "CREATE_GAME"

\* JOIN_GAME up to the await of send_initial_msg: a code that is not in the
\* wait list is answered with an ERROR message, whose construction raises
\* NameError; otherwise the Game is made and add_new_game records it for
\* both players.
JoinGame ==
    \E player \in 1..NumPlayers : \E game_code \in 1..NumCodes :
        LET opponent_player == game.wait_dict[game_code]
            made == Len(game.games) + 1
        IN  /\ agent.pc[player] = "recv_msg"
            /\ game.player_to_game[player] = 0
            /\ IF opponent_player = 0 \/ opponent_player = player
               THEN /\ agent' = [agent EXCEPT !.pc[player] = "NameError"]
                    /\ UNCHANGED game
               ELSE /\ game' = [game EXCEPT
                                   !.games = Append(@, [player |-> player,
                                                        opponent_player |-> opponent_player,
                                                        game_code |-> game_code]),
                                   !.player_to_game[player] = made,
                                   !.player_to_game[opponent_player] = made]
                    /\ agent' = [agent EXCEPT !.pc[player] = "send_initial_msg",
                                              !.game_code[player] = game_code]
            /\ lastOp' = "JOIN_GAME"

\* send_initial_msg has completed: invalidate_code deletes the code, which
\* raises KeyError if the code is not in the wait list.
JoinResume ==
    \E player \in 1..NumPlayers :
        LET game_code == agent.game_code[player]
        IN  /\ agent.pc[player] = "send_initial_msg"
            /\ IF game.wait_dict[game_code] # 0
               THEN /\ game' = [game EXCEPT !.wait_dict[game_code] = 0]
                    /\ agent' = [agent EXCEPT !.pc[player] = "recv_msg"]
                    /\ lastOp' = "invalidate_code"
               ELSE /\ agent' = [agent EXCEPT !.pc[player] = "KeyError"]
                    /\ lastOp' = "KeyError"
                    /\ UNCHANGED game

ServerNext ==
    \/ CreateGame
    \/ JoinGame
    \/ JoinResume

ServerSpec == ServerInit /\ [][ServerNext]_vars

\* The Games made with a waiting player.  A player waits under one code
\* only: the coroutine that handled its CREATE_GAME has ended.
GamesWith(opponent_player) ==
    {i \in 1..Len(game.games) : game.games[i].opponent_player = opponent_player}

(***************************************************************************)
(* C39: a game code returned for CREATE_GAME starts at most one game: when *)
(* two players send JOIN_GAME with the same code and their handlers        *)
(* interleave at the await inside handle_msg, at most one Game is created  *)
(* with the waiting player, and invalidate_code is never called on a code  *)
(* that has already been removed.                                          *)
(***************************************************************************)
C39_OneGamePerCode ==
    /\ \A opponent_player \in 1..NumPlayers :
           Cardinality(GamesWith(opponent_player)) <= 1
    /\ \A player \in 1..NumPlayers : agent.pc[player] # "KeyError"

\* While no handler is suspended in send_initial_msg, a code in the wait
\* list has started no game yet: joins that do not interleave make one
\* game for a code.
C39_OneGameWithoutInterleaving ==
    (\A player \in 1..NumPlayers : agent.pc[player] # "send_initial_msg")
        => \A game_code \in 1..NumCodes :
               game.wait_dict[game_code] # 0 =>
                   GamesWith(game.wait_dict[game_code]) = {}

\* Two Games were made with one waiting player, and the handler that
\* resumed second raised KeyError in invalidate_code.
C39_TwoGamesReached ==
    \E opponent_player \in 1..NumPlayers :
        /\ Cardinality(GamesWith(opponent_player)) = 2
        /\ \E player \in 1..NumPlayers : agent.pc[player] = "KeyError"

====
